---- MODULE Spec2Model ----
(***************************************************************************)
(* Exam Arena adaptive engine (routes/arena.py): attempts, submission,     *)
(* difficulty selection, readiness, rank and XP, over the SQLite tables    *)
(* the handlers read and write.                                            *)
(*                                                                         *)
(* Numbers.  Python computes accuracy_percent, avg_time_per_question and   *)
(* readiness in floating point.  The model holds accuracy_percent and      *)
(* avg_time_per_question as integers in units of 1/Unit (Unit = 60, so     *)
(* that x/n is exact for every n in 1..6), compares weighted averages by   *)
(* cross-multiplication (exact), and holds readiness in tenths, as         *)
(* round(x, 1) leaves it.  Floating-point rounding error is not modelled.  *)
(***************************************************************************)
EXTENDS Integers, Sequences, FiniteSets, Bags, TLC

VARIABLES
  question_bank,    \* arena_question_bank: id -> [exam, subject, topic_tag, difficulty]
  arena_profiles,   \* arena_profiles: student -> [exam, subject] or NoRow
  arena_attempts,   \* arena_attempts: sequence of rows, id = index (AUTOINCREMENT)
  attempt_answers,  \* arena_attempt_answers: sequence of rows in insertion order
  xp_log,           \* arena_xp_log: sequence of rows in insertion order
  rank_status,      \* arena_rank_status: student -> row or NoRow
  topic_mastery,    \* arena_topic_mastery: <<student, exam, subject, topic>> -> row
  ai_notes,         \* arena_ai_notes: sequence of rows
  revision_plans,   \* arena_revision_plans: sequence of rows
  achievements,     \* arena_achievements: set of <<student, code>>
  enrollments,      \* enrollments of the class: student ids in rowid order
  quiz_submissions, \* quiz_submissions of the class's quizzes: bag of rows
  leaderboard_scores, \* leaderboard_scores of the class: student -> row
  inflight,         \* submit requests being handled: slot -> handler context or Idle
  last,             \* the request handled last and its response (HTTP log)
  raised,           \* database calls that have raised so far
  arg,              \* input of the pure function under check
  ret               \* its result

dbvars == <<question_bank, arena_profiles, arena_attempts, attempt_answers, xp_log,
            rank_status, topic_mastery, ai_notes, revision_plans, achievements>>
sysvars == <<question_bank, arena_profiles, arena_attempts, attempt_answers, xp_log,
             rank_status, topic_mastery, ai_notes, revision_plans, achievements,
             inflight, last, raised>>
classvars == <<enrollments, quiz_submissions, leaderboard_scores>>
vars == <<question_bank, arena_profiles, arena_attempts, attempt_answers, xp_log,
          rank_status, topic_mastery, ai_notes, revision_plans, achievements,
          enrollments, quiz_submissions, leaderboard_scores,
          inflight, last, raised, arg, ret>>

(***************************************************************************)
(* Arithmetic helpers                                                      *)
(***************************************************************************)
\* lcm(1..6): the fixed-point scale of accuracy_percent and avg_time_per_question
Unit == 3 * 4 * 5

Min(a, b) == IF a < b THEN a ELSE b
Max(a, b) == IF a > b THEN a ELSE b

RECURSIVE SumSeq(_)
SumSeq(s) == IF s = <<>> THEN 0 ELSE Head(s) + SumSeq(Tail(s))

Reverse(s) == [i \in 1..Len(s) |-> s[Len(s) + 1 - i]]

Prefix(s, n) == SubSeq(s, 1, Min(n, Len(s)))

\* floor(sqrt(v)) for v >= 0, by bisection on [lo, hi]
RECURSIVE ISqrtIn(_, _, _)
ISqrtIn(v, lo, hi) ==
  IF lo >= hi THEN lo
  ELSE LET mid == (lo + hi + 1) \div 2
       IN IF mid * mid <= v THEN ISqrtIn(v, mid, hi) ELSE ISqrtIn(v, lo, mid - 1)
ISqrt(v) == ISqrtIn(v, 0, 46340)

(***************************************************************************)
(* DifficultySelector: _pick_adaptive_difficulty (arena.py 253-290)        *)
(***************************************************************************)
\* [0.5, 0.3, 0.2] in tenths
Weights == <<5, 3, 2>>

\* faulty variant of OrDefault: the value as it is stored
keep_value(v, d) == v

\* Python's (v or d) on a number: 0 is falsy.  The columns are NOT NULL.
OrDefault(v, d) == IF v = 0 THEN d ELSE v

\* the loop of lines 269-274: failures counted from the newest attempt back
RECURSIVE consecutive_fails(_)
consecutive_fails(recent) ==
  IF recent = <<>> THEN 0
  ELSE IF OrDefault(Head(recent).accuracy_percent, 0) < 40 * Unit
       THEN 1 + consecutive_fails(Tail(recent))
       ELSE 0

\* the threshold rule of lines 263-266 and 282-290
ThresholdRule(recent) ==
  LET n == Len(recent)
      weight_sum == SumSeq(SubSeq(Weights, 1, n))
      \* avg_acc = acc_sum / weight_sum, avg_speed = speed_sum / weight_sum
      acc_sum == SumSeq([i \in 1..n |-> OrDefault(recent[i].accuracy_percent, 0) * Weights[i]])
      speed_sum == SumSeq([i \in 1..n |->
                      OrDefault(recent[i].avg_time_per_question, 60 * Unit) * Weights[i]])
  IN IF acc_sum >= 85 * Unit * weight_sum /\ speed_sum < 40 * Unit * weight_sum THEN "Hard"
     ELSE IF acc_sum >= 70 * Unit * weight_sum /\ speed_sum < 50 * Unit * weight_sum
          THEN (IF recent[1].difficulty_end = "Medium" THEN "Hard" ELSE "Medium")
     ELSE IF acc_sum >= 50 * Unit * weight_sum /\ speed_sum < 70 * Unit * weight_sum THEN "Medium"
     ELSE IF acc_sum < 40 * Unit * weight_sum \/ speed_sum > 90 * Unit * weight_sum THEN "Easy"
     ELSE "Medium"

\* faulty variant: the revision-mode override of lines 279-280 is missing
pick_no_override(recent) ==
  IF recent = <<>> THEN "Medium" ELSE ThresholdRule(recent)

\* recent: the rows of the query of lines 255-258, newest first, at most 3
_pick_adaptive_difficulty(recent) ==
  IF recent = <<>> THEN "Medium"
  ELSE IF consecutive_fails(recent) >= 2 THEN "Easy"
  ELSE ThresholdRule(recent)

(***************************************************************************)
(* ReadinessCalculator: _compute_readiness (arena.py 203-250)              *)
(***************************************************************************)
\* weight 1/(1 + 0.3 i) of position i (0 = newest) is 10 / WeightDen(i)
WeightDen(i) == 10 + 3 * i

RECURSIVE ProdDen(_)
ProdDen(n) == IF n = 0 THEN 1 ELSE WeightDen(n - 1) * ProdDen(n - 1)

\* the weight of position i among n attempts, times ProdDen(n) / 10: an integer
DecayWeight(i, n) == ProdDen(n) \div WeightDen(i)

\* diff_map.get(d, 50), line 223-224
diff_map(d) ==
  CASE d = "Easy" -> 30
    [] d = "Medium" -> 60
    [] d = "Hard" -> 90
    [] d = "Extreme" -> 100
    [] OTHER -> 50

\* a.get('difficulty_end') or a.get('difficulty_start', 'Medium')
difficulty_of(a) == IF a.difficulty_end # "" THEN a.difficulty_end ELSE a.difficulty_start

\* faulty variant of attempt_acc: the share of wrong answers
attempt_error_rate(a) ==
  IF a.total_questions > 0
  THEN (100 * Unit * (a.total_questions - a.score)) \div a.total_questions
  ELSE 0

\* accuracy component input of line 217, in 1/Unit percent
attempt_acc(a) ==
  IF a.total_questions > 0 THEN (100 * Unit * a.score) \div a.total_questions ELSE 0

\* weighted mean of lines 213-220, in 1/Unit percent
weighted_accuracy(attempts) ==
  LET n == Len(attempts)
      weighted_acc == SumSeq([i \in 1..n |-> attempt_acc(attempts[i]) * DecayWeight(i - 1, n)])
      weight_sum == SumSeq([i \in 1..n |-> DecayWeight(i - 1, n)])
  IN IF weight_sum > 0 THEN weighted_acc \div weight_sum ELSE 0

\* mean of diff_scores, lines 223-225, in 1/Unit
difficulty_score(attempts) ==
  LET n == Len(attempts)
  IN (Unit * SumSeq([i \in 1..n |-> diff_map(difficulty_of(attempts[i]))])) \div n

\* speed_score of lines 228-241, in 1/Unit
speed_score(attempts) ==
  LET idx == {i \in 1..Len(attempts) : attempts[i].avg_time_per_question > 0}
      m == Cardinality(idx)
      total == SumSeq([i \in 1..Len(attempts) |->
                  IF i \in idx THEN attempts[i].avg_time_per_question ELSE 0])
      avg_speed == total \div m
      base == Max(0, Min(100 * Unit, ((90 * Unit - avg_speed) * 100) \div 90))
      variance == SumSeq([i \in 1..Len(attempts) |->
                     IF i \in idx
                     THEN (attempts[i].avg_time_per_question - avg_speed)
                          * (attempts[i].avg_time_per_question - avg_speed)
                     ELSE 0]) \div m
      std_dev == ISqrt(variance)
      consistency_bonus == Max(0, Min(20 * Unit, 20 * Unit - std_dev))
  IN IF m = 0 THEN 50 * Unit
     ELSE IF m > 1 THEN Min(100 * Unit, base + consistency_bonus)
     ELSE base

\* (1 - failure_ratio) * 100 of lines 244-247, in 1/Unit
attempt_penalty_score(attempts) ==
  LET n == Len(attempts)
      failed_attempts == Cardinality({i \in 1..n : attempts[i].accuracy_percent < 40 * Unit})
  IN Max(0, (100 * Unit * (n - failed_attempts)) \div n)

\* readiness of line 249 before clamping, in 1/(100 Unit) percent
readiness_sum(attempts) ==
    50 * weighted_accuracy(attempts) + 25 * difficulty_score(attempts)
  + 15 * speed_score(attempts) + 10 * attempt_penalty_score(attempts)

\* round(x, 1) of x given in 1/(100 Unit): the result in tenths (half rounds up)
RoundTenths(x) == (x + 5 * Unit) \div (10 * Unit)

\* faulty variant: line 250 without min(100, max(0, .))
readiness_unclamped(attempts) ==
  IF attempts = <<>> THEN 0 ELSE RoundTenths(readiness_sum(attempts))

\* attempts: the rows of the query of lines 205-208, newest first; result in tenths
_compute_readiness(attempts) ==
  IF attempts = <<>> THEN 0
  ELSE RoundTenths(Min(100 * 100 * Unit, Max(0, readiness_sum(attempts))))

(***************************************************************************)
(* RankEngine: _calculate_rank (arena.py 190-200), levels (477-498)        *)
(***************************************************************************)
\* a rank that needs more than the threshold
calculate_rank_above(xp, accuracy, streak) ==
  LET score == Unit * xp + 6 * accuracy + 20 * Unit * streak
  IN IF score > 800 * 2 * Unit THEN "Diamond"
     ELSE IF score > 500 * 2 * Unit THEN "Platinum"
     ELSE IF score > 300 * 2 * Unit THEN "Gold"
     ELSE IF score > 150 * 2 * Unit THEN "Silver"
     ELSE "Bronze"

\* accuracy in 1/Unit percent; score = xp*0.5 + accuracy*3 + streak*10, times 2 Unit
_calculate_rank(xp, accuracy, streak) ==
  LET score == Unit * xp + 6 * accuracy + 20 * Unit * streak
  IN IF score >= 800 * 2 * Unit THEN "Diamond"
     ELSE IF score >= 500 * 2 * Unit THEN "Platinum"
     ELSE IF score >= 300 * 2 * Unit THEN "Gold"
     ELSE IF score >= 150 * 2 * Unit THEN "Silver"
     ELSE "Bronze"

LEVEL_THRESHOLDS == <<0, 200, 500, 1000, 2000, 3500, 5500, 8000, 11000, 15000, 20000>>

\* a level that is reached only above its threshold
get_level_above(xp) ==
  LET below == {i \in 1..Len(LEVEL_THRESHOLDS) : xp <= LEVEL_THRESHOLDS[i]}
  IN IF below # {} THEN (CHOOSE i \in below : \A j \in below : i <= j) - 1
     ELSE Len(LEVEL_THRESHOLDS)
          + (xp - LEVEL_THRESHOLDS[Len(LEVEL_THRESHOLDS)]) \div 5000

\* int(x / 5000) truncates toward zero; x >= 0 here
_get_level(xp) ==
  LET below == {i \in 1..Len(LEVEL_THRESHOLDS) : xp < LEVEL_THRESHOLDS[i]}
  IN IF below # {} THEN (CHOOSE i \in below : \A j \in below : i <= j) - 1
     ELSE Len(LEVEL_THRESHOLDS)
          + (xp - LEVEL_THRESHOLDS[Len(LEVEL_THRESHOLDS)]) \div 5000

_get_next_level_xp(level) ==
  IF level < Len(LEVEL_THRESHOLDS) THEN LEVEL_THRESHOLDS[level + 1]
  ELSE LEVEL_THRESHOLDS[Len(LEVEL_THRESHOLDS)] + (level - Len(LEVEL_THRESHOLDS) + 1) * 5000

(***************************************************************************)
(* The database and the requests                                           *)
(***************************************************************************)
Students == {1, 2}

\* the students who open the arena and take quizzes; the others only send
\* requests for attempts that are not theirs
Learners == {1}

\* bounds of the model
MaxAttempts == 2      \* rows of arena_attempts
MaxAnswerRows == 4    \* rows of arena_attempt_answers
QuizSize == 2         \* questions per attempt (10 in the source, lines 813 and 894)
MockWeakLimit == 1    \* weak-topic questions of a mock test (5 of 10, line 889)
DailyWeakLimit == 1   \* weak-topic questions of a daily challenge (4 of 10, line 808)
MaxFaults == 1        \* database calls that raise

\* the bank after _seed_questions_if_needed: question id -> row
SeededBank ==
  (1 :> [exam |-> "JEE", subject |-> "Physics", topic_tag |-> "Mechanics", difficulty |-> "Medium"])
  @@ (2 :> [exam |-> "JEE", subject |-> "Physics", topic_tag |-> "Optics", difficulty |-> "Medium"])
  @@ (3 :> [exam |-> "JEE", subject |-> "Physics", topic_tag |-> "Mechanics", difficulty |-> "Easy"])

\* a question id that names no row of arena_question_bank
UnknownQ == Cardinality(DOMAIN SeededBank) + 1

EmptyFn == [x \in {} |-> 0]

DB == [question_bank |-> question_bank, arena_profiles |-> arena_profiles,
       arena_attempts |-> arena_attempts, attempt_answers |-> attempt_answers,
       xp_log |-> xp_log, rank_status |-> rank_status, topic_mastery |-> topic_mastery,
       ai_notes |-> ai_notes, revision_plans |-> revision_plans,
       achievements |-> achievements]

Commit(d) ==
  /\ question_bank' = d.question_bank
  /\ arena_profiles' = d.arena_profiles
  /\ arena_attempts' = d.arena_attempts
  /\ attempt_answers' = d.attempt_answers
  /\ xp_log' = d.xp_log
  /\ rank_status' = d.rank_status
  /\ topic_mastery' = d.topic_mastery
  /\ ai_notes' = d.ai_notes
  /\ revision_plans' = d.revision_plans
  /\ achievements' = d.achievements

\* a set of integers as a sequence, largest first
RECURSIVE DescSeq(_)
DescSeq(S) ==
  IF S = {} THEN <<>>
  ELSE LET m == CHOOSE x \in S : \A y \in S : y <= x
       IN <<m>> \o DescSeq(S \ {m})

\* SELECT ... WHERE student_id=? AND exam=? AND subject=? AND status='completed'
\* ORDER BY created_at DESC LIMIT limit (lines 205-208, 255-258); ids rise with created_at
completed_attempts(d, uid, exam, subject, limit) ==
  LET ids == {i \in DOMAIN d.arena_attempts :
                /\ d.arena_attempts[i].student_id = uid
                /\ d.arena_attempts[i].exam = exam
                /\ d.arena_attempts[i].subject = subject
                /\ d.arena_attempts[i].status = "completed"}
      rows == DescSeq(ids)
  IN [k \in 1..Min(limit, Len(rows)) |-> d.arena_attempts[rows[k]]]

\* profile['exam'], profile['subject'], or the defaults of lines 791-792, 844-845
profile_of(d, uid) ==
  IF uid \in DOMAIN d.arena_profiles THEN d.arena_profiles[uid]
  ELSE [exam |-> "JEE", subject |-> "Physics"]

Idle == [pc |-> "idle"]
NoRequest == [op |-> "none"]

\* no handler has run: the tables of ensure_schema.py are empty, the bank is seeded
EmptyDB ==
  [question_bank |-> SeededBank, arena_profiles |-> EmptyFn, arena_attempts |-> <<>>,
   attempt_answers |-> <<>>, xp_log |-> <<>>, rank_status |-> EmptyFn,
   topic_mastery |-> EmptyFn, ai_notes |-> <<>>, revision_plans |-> <<>>,
   achievements |-> {}]

\* the tables hold d
Holds(d) ==
  /\ question_bank = d.question_bank
  /\ arena_profiles = d.arena_profiles
  /\ arena_attempts = d.arena_attempts
  /\ attempt_answers = d.attempt_answers
  /\ xp_log = d.xp_log
  /\ rank_status = d.rank_status
  /\ topic_mastery = d.topic_mastery
  /\ ai_notes = d.ai_notes
  /\ revision_plans = d.revision_plans
  /\ achievements = d.achievements

InitDB ==
  /\ Holds(EmptyDB)
  /\ enrollments = <<>>
  /\ quiz_submissions = EmptyBag
  /\ leaderboard_scores = EmptyFn
  /\ inflight = [slot \in {1, 2} |-> Idle]
  /\ last = NoRequest
  /\ raised = 0

(***************************************************************************)
(* submit_attempt (arena.py 994-1152), stage by stage.  A stage is a step  *)
(* on a world w = [db, c]: the tables and the handler's context c (its     *)
(* position pc, the request and the locals).  Every _db call commits on    *)
(* its own connection (db_manager.py 55-71), so what a stage has written   *)
(* stays written when a later stage raises.                                *)
(***************************************************************************)
\* answers: sequence of [question_id, correct], correct standing for
\* selected_option = correct_option; duration: datetime.now() - created_at in
\* seconds; fault: the stage whose database call raises; order: the order
\* RANDOM() gives the bank's rows
Request(uid, session_id, answers, duration, fault, order) ==
  [pc |-> "lookup", uid |-> uid, session_id |-> session_id, answers |-> answers,
   duration |-> duration, fault |-> fault, order |-> order,
   exam |-> "", subject |-> "", attempt_type |-> "",
   score |-> 0, total |-> 0, wrong_answers |-> <<>>, correct_answers |-> <<>>,
   avg_time |-> 0, accuracy |-> 0, xp_earned |-> 0,
   stage_log |-> <<>>, code |-> 0, success |-> FALSE]

Reply(c, code, success) == [c EXCEPT !.pc = "done", !.code = code, !.success = success]

\* the outer except of lines 1149-1152
internal_error(c) == Reply(c, 500, FALSE)

Goto(c, pc, stage) == [c EXCEPT !.pc = pc, !.stage_log = Append(@, stage)]

\* faulty variant of After: topic mastery, then readiness, then rank
after_mastery_first(pc) ==
  CASE pc = "xp" -> "mastery"
    [] pc = "mastery" -> "readiness"
    [] pc = "readiness" -> "rank"
    [] pc = "rank" -> "notes"
    [] pc = "lookup" -> "answers"
    [] pc = "answers" -> "finalize"
    [] pc = "finalize" -> "xp"
    [] pc = "notes" -> "plan"
    [] pc = "plan" -> "achievements"
    [] OTHER -> "done"

\* the stage that follows stage pc: the statements of lines 1002-1147 in order
After(pc) ==
  CASE pc = "lookup" -> "answers"
    [] pc = "answers" -> "finalize"
    [] pc = "finalize" -> "xp"
    [] pc = "xp" -> "rank"
    [] pc = "rank" -> "mastery"
    [] pc = "mastery" -> "readiness"
    [] pc = "readiness" -> "notes"
    [] pc = "notes" -> "plan"
    [] pc = "plan" -> "achievements"
    [] OTHER -> "done"

\* faulty variant of lookup: the SELECT of line 1009 does not ask for status='ongoing'
lookup_any_status(w) ==
  LET c == w.c
      att == w.db.arena_attempts
      owned == c.session_id \in DOMAIN att /\ att[c.session_id].student_id = c.uid
  IN IF c.session_id = 0 \/ c.answers = <<>>
     THEN [w EXCEPT !.c = Reply(c, 400, FALSE)]
     ELSE IF owned
     THEN [w EXCEPT !.c = [c EXCEPT !.pc = After("lookup"),
                                    !.exam = att[c.session_id].exam,
                                    !.subject = att[c.session_id].subject,
                                    !.attempt_type = att[c.session_id].attempt_type]]
     ELSE [w EXCEPT !.c = Reply(c, 400, FALSE)]

\* lines 1002-1020
lookup(w) ==
  LET c == w.c
      att == w.db.arena_attempts
      owned == c.session_id \in DOMAIN att /\ att[c.session_id].student_id = c.uid
  IN IF c.session_id = 0 \/ c.answers = <<>>
     THEN [w EXCEPT !.c = Reply(c, 400, FALSE)]
     ELSE IF owned /\ att[c.session_id].status = "ongoing"
     THEN [w EXCEPT !.c = [c EXCEPT !.pc = After("lookup"),
                                    !.exam = att[c.session_id].exam,
                                    !.subject = att[c.session_id].subject,
                                    !.attempt_type = att[c.session_id].attempt_type]]
     ELSE IF owned /\ att[c.session_id].status = "completed"
     THEN [w EXCEPT !.c = Reply(c, 200, TRUE)]
     ELSE [w EXCEPT !.c = Reply(c, 400, FALSE)]

\* the loop of lines 1044-1070 over the answers left; r = [rows, score, wrong,
\* correct, raised].  PRAGMA foreign_keys = ON (db_manager.py 15) and the FOREIGN
\* KEY of arena_attempt_answers.question_id make the insert of line 1067 raise.
RECURSIVE answer_loop(_, _, _, _)
answer_loop(bank, session_id, answers, r) ==
  IF answers = <<>> THEN r
  ELSE LET ans == Head(answers)
           qid == ans.question_id
       IN IF qid \in DOMAIN bank
          THEN answer_loop(bank, session_id, Tail(answers),
                 [rows |-> Append(r.rows, [attempt_id |-> session_id, question_id |-> qid,
                                           is_correct |-> ans.correct]),
                  score |-> r.score + (IF ans.correct THEN 1 ELSE 0),
                  wrong |-> IF ans.correct THEN r.wrong ELSE Append(r.wrong, qid),
                  correct |-> IF ans.correct THEN Append(r.correct, qid) ELSE r.correct,
                  raised |-> FALSE])
          ELSE [r EXCEPT !.raised = TRUE]

\* lines 1022-1070
record_answers(w) ==
  LET c == w.c
      total == Len(c.answers)
      r == answer_loop(w.db.question_bank, c.session_id, c.answers,
                       [rows |-> <<>>, score |-> 0, wrong |-> <<>>, correct |-> <<>>,
                        raised |-> FALSE])
      d == [w.db EXCEPT !.attempt_answers = @ \o r.rows]
  IN IF r.raised THEN [db |-> d, c |-> internal_error(c)]
     ELSE [db |-> d,
           c |-> [c EXCEPT !.pc = After("answers"), !.total = total, !.score = r.score,
                           !.avg_time = (Unit * c.duration) \div total,
                           !.wrong_answers = r.wrong, !.correct_answers = r.correct]]

\* faulty variant: the UPDATE of line 1081 writes another status
finalize_abandoned(w) ==
  [db |-> [w.db EXCEPT !.arena_attempts[w.c.session_id].status = "abandoned"],
   c |-> [w.c EXCEPT !.pc = After("finalize")]]

\* lines 1073-1086
finalize(w) ==
  LET c == w.c
      xp_earned == c.score * 10 + 50
      accuracy == (100 * Unit * c.score) \div c.total
      difficulty_end ==
        _pick_adaptive_difficulty(completed_attempts(w.db, c.uid, c.exam, c.subject, 3))
  IN [db |-> [w.db EXCEPT !.arena_attempts[c.session_id] =
                [@ EXCEPT !.score = c.score, !.status = "completed",
                          !.xp_earned = xp_earned, !.accuracy_percent = accuracy,
                          !.avg_time_per_question = c.avg_time,
                          !.difficulty_end = difficulty_end]],
      c |-> [c EXCEPT !.pc = After("finalize"), !.xp_earned = xp_earned, !.accuracy = accuracy]]

\* _award_xp, lines 555-564
_award_xp(d, uid, amount, source) ==
  LET logged == [d EXCEPT !.xp_log = Append(@, [student_id |-> uid, amount |-> amount,
                                                 source |-> source])]
  IN IF source = "achievement" /\ uid \in DOMAIN d.rank_status
     THEN [logged EXCEPT !.rank_status[uid].xp_total = @ + amount]
     ELSE logged

\* line 1090, outside every inner try
award_quiz_xp(w) ==
  IF w.c.fault = "xp" THEN [w EXCEPT !.c = internal_error(w.c)]
  ELSE [db |-> _award_xp(w.db, w.c.uid, w.c.xp_earned, "quiz"),
        c |-> Goto(w.c, After("xp"), "xp")]

\* lines 1093-1103, outside every inner try; the UPDATEs touch no row when the
\* student has no arena_rank_status row
update_rank(w) ==
  LET c == w.c
      rs == w.db.rank_status
  IN IF c.fault = "rank" THEN [w EXCEPT !.c = internal_error(c)]
     ELSE IF c.uid \notin DOMAIN rs THEN [w EXCEPT !.c = [c EXCEPT !.pc = After("rank")]]
     ELSE LET xp_total == rs[c.uid].xp_total + c.xp_earned
              streak_days == rs[c.uid].streak_days + 1
              new_rank == _calculate_rank(xp_total, c.accuracy, streak_days)
          IN [db |-> [w.db EXCEPT !.rank_status[c.uid] =
                        [@ EXCEPT !.xp_total = xp_total, !.streak_days = streak_days,
                                  !.rank_name = new_rank]],
              c |-> Goto(c, After("rank"), "rank")]

\* the positions of answers (a sequence of question ids) on a topic
OnTopic(bank, answers, topic) == {i \in 1..Len(answers) : bank[answers[i]].topic_tag = topic}

\* a mastery stage that forgets the stored score: every touched topic is set to
\* the accuracy of this attempt
overwrite_topic_mastery(d, uid, exam, subject, wrong_answers, correct_answers) ==
  LET bank == d.question_bank
      all == wrong_answers \o correct_answers
      topics == {bank[all[i]].topic_tag : i \in 1..Len(all)} \ {""}
      keys == {<<uid, exam, subject, t>> : t \in topics}
      row(key) ==
        LET correct == Cardinality(OnTopic(bank, correct_answers, key[4]))
            total == correct + Cardinality(OnTopic(bank, wrong_answers, key[4]))
        IN [mastery_score |-> (1000 * correct) \div total,
            weak_flag |-> IF 2 * correct < total THEN 1 ELSE 0]
  IN [d EXCEPT !.topic_mastery =
        [key \in DOMAIN @ \cup keys |-> IF key \in keys THEN row(key) ELSE @[key]]]

\* a mastery stage that does not skip the questions without a topic tag
update_mastery_untagged(d, uid, exam, subject, wrong_answers, correct_answers) ==
  LET bank == d.question_bank
      all == wrong_answers \o correct_answers
      topics == {bank[all[i]].topic_tag : i \in 1..Len(all)}
      keys == {<<uid, exam, subject, t>> : t \in topics}
      row(key) ==
        LET correct == Cardinality(OnTopic(bank, correct_answers, key[4]))
            total == correct + Cardinality(OnTopic(bank, wrong_answers, key[4]))
            exists == key \in DOMAIN d.topic_mastery
            blended == IF exists
                       THEN 7000 * correct + 3 * d.topic_mastery[key].mastery_score * total
                       ELSE 10000 * correct
        IN [mastery_score |-> (2 * blended + 10 * total) \div (20 * total),
            weak_flag |-> IF blended < 50 * 100 * total THEN 1 ELSE 0]
  IN [d EXCEPT !.topic_mastery =
        [key \in DOMAIN @ \cup keys |-> IF key \in keys THEN row(key) ELSE @[key]]]

\* _update_topic_mastery, lines 295-343; mastery_score is held in tenths.
\* blended = 0.7 * (100 c / t) + 0.3 * (e / 10) = (7000 c + 3 e t) / (100 t)
_update_topic_mastery(d, uid, exam, subject, wrong_answers, correct_answers) ==
  LET bank == d.question_bank
      all == wrong_answers \o correct_answers
      topics == {bank[all[i]].topic_tag : i \in 1..Len(all)} \ {""}
      keys == {<<uid, exam, subject, t>> : t \in topics}
      row(key) ==
        LET correct == Cardinality(OnTopic(bank, correct_answers, key[4]))
            total == correct + Cardinality(OnTopic(bank, wrong_answers, key[4]))
            exists == key \in DOMAIN d.topic_mastery
            \* blended * 100 * total
            blended == IF exists
                       THEN 7000 * correct + 3 * d.topic_mastery[key].mastery_score * total
                       ELSE 10000 * correct
        IN [mastery_score |-> (2 * blended + 10 * total) \div (20 * total),
            weak_flag |-> IF blended < 50 * 100 * total THEN 1 ELSE 0]
  IN [d EXCEPT !.topic_mastery =
        [key \in DOMAIN @ \cup keys |-> IF key \in keys THEN row(key) ELSE @[key]]]

\* lines 1105-1109
update_mastery(w) ==
  LET c == w.c
  IN IF c.fault = "mastery" THEN [w EXCEPT !.c = [c EXCEPT !.pc = After("mastery")]]
     ELSE [db |-> _update_topic_mastery(w.db, c.uid, c.exam, c.subject,
                                        c.wrong_answers, c.correct_answers),
           c |-> Goto(c, After("mastery"), "mastery")]

\* lines 1111-1120
update_readiness(w) ==
  LET c == w.c
      readiness == _compute_readiness(completed_attempts(w.db, c.uid, c.exam, c.subject, 10))
  IN IF c.fault = "readiness" THEN [w EXCEPT !.c = [c EXCEPT !.pc = After("readiness")]]
     ELSE [db |-> IF c.uid \in DOMAIN w.db.rank_status
                  THEN [w.db EXCEPT !.rank_status[c.uid].readiness_score = readiness]
                  ELSE w.db,
           c |-> Goto(c, After("readiness"), "readiness")]

\* the topics of a sequence of question ids, each once, in order of first occurrence
RECURSIVE topics_covered(_, _, _)
topics_covered(bank, answers, seen) ==
  IF answers = <<>> THEN <<>>
  ELSE LET topic == bank[Head(answers)].topic_tag
       IN IF topic \in seen THEN topics_covered(bank, Tail(answers), seen)
          ELSE <<topic>> \o topics_covered(bank, Tail(answers), seen \cup {topic})

\* _generate_ai_notes, lines 346-373
_generate_ai_notes(d, uid, attempt_id, wrong_answers) ==
  LET topics == topics_covered(d.question_bank, wrong_answers, {})
  IN [d EXCEPT !.ai_notes = @ \o [i \in 1..Len(topics) |->
                                    [student_id |-> uid, attempt_id |-> attempt_id,
                                     topic_tag |-> topics[i]]]]

\* lines 1122-1127
generate_notes(w) ==
  LET c == w.c
  IN IF c.fault = "notes" \/ c.wrong_answers = <<>>
     THEN [w EXCEPT !.c = [c EXCEPT !.pc = After("notes")]]
     ELSE [db |-> _generate_ai_notes(w.db, c.uid, c.session_id, c.wrong_answers),
           c |-> Goto(c, After("notes"), "notes")]

\* SELECT ... WHERE id IN S ORDER BY RANDOM() LIMIT k, RANDOM() ordering as order
RandomLimit(S, order, k) == Prefix(SelectSeq(order, LAMBDA q : q \in S), k)

\* _generate_revision_plan, lines 393-472
_generate_revision_plan(d, uid, attempt_id, exam, subject, order) ==
  LET bank == d.question_bank
      mine == {i \in DOMAIN d.attempt_answers : d.attempt_answers[i].attempt_id = attempt_id}
      wrong == {i \in mine : ~d.attempt_answers[i].is_correct}
      readiness_before == _compute_readiness(completed_attempts(d, uid, exam, subject, 10))
      weak_tags == {bank[d.attempt_answers[i].question_id].topic_tag : i \in wrong}
      answered == {d.attempt_answers[i].question_id : i \in mine}
      candidates == {q \in DOMAIN bank :
                       /\ bank[q].exam = exam /\ bank[q].subject = subject
                       /\ bank[q].topic_tag \in weak_tags
                       /\ q \notin answered}
  IN IF wrong = {} THEN d
     ELSE [d EXCEPT !.revision_plans =
             Append(@, [student_id |-> uid, attempt_id |-> attempt_id, exam |-> exam,
                        subject |-> subject,
                        practice_questions |-> RandomLimit(candidates, order, 3),
                        topic_suggestions |-> weak_tags,
                        readiness_before |-> readiness_before])]

\* a plan stage that looks at the accuracy only
plan_on_low_score_only(w) ==
  LET c == w.c
  IN IF c.fault # "plan" /\ c.accuracy < 40 * Unit /\ c.wrong_answers # <<>>
     THEN [db |-> _generate_revision_plan(w.db, c.uid, c.session_id, c.exam, c.subject,
                                          c.order),
           c |-> Goto(c, After("plan"), "plan")]
     ELSE [w EXCEPT !.c = [c EXCEPT !.pc = After("plan")]]

\* lines 1129-1142
generate_plan(w) ==
  LET c == w.c
      att == w.db.arena_attempts
      mock_count == Cardinality({i \in DOMAIN att :
                      /\ att[i].student_id = c.uid /\ att[i].attempt_type = "mock"
                      /\ att[i].exam = c.exam /\ att[i].subject = c.subject
                      /\ att[i].status = "completed"})
      is_3rd_attempt == mock_count >= 3
      is_low_score == c.accuracy < 40 * Unit
  IN IF c.fault # "plan" /\ (is_3rd_attempt \/ is_low_score) /\ c.wrong_answers # <<>>
     THEN [db |-> _generate_revision_plan(w.db, c.uid, c.session_id, c.exam, c.subject,
                                          c.order),
           c |-> Goto(c, After("plan"), "plan")]
     ELSE [w EXCEPT !.c = [c EXCEPT !.pc = After("plan")]]

\* _unlock, lines 509-519
_unlock(d, uid, code) ==
  IF <<uid, code>> \in d.achievements THEN d
  ELSE _award_xp([d EXCEPT !.achievements = @ \cup {<<uid, code>>}], uid, 100, "achievement")

RECURSIVE unlock_each(_, _, _)
unlock_each(d, uid, codes) ==
  IF codes = <<>> THEN d ELSE unlock_each(_unlock(d, uid, Head(codes)), uid, Tail(codes))

\* _check_achievements, lines 500-553; rank_row is read once, at line 504
_check_achievements(d, uid, score, total_questions, avg_time, attempt_type) ==
  LET has_rank == uid \in DOMAIN d.rank_status
      total_attempts == Cardinality({i \in DOMAIN d.arena_attempts :
                                       d.arena_attempts[i].student_id = uid})
      level == IF has_rank THEN _get_level(d.rank_status[uid].xp_total) ELSE 1
      due == << <<"FIRST_BLOOD", total_attempts >= 1>>,
                <<"SCHOLAR", level >= 5>>,
                <<"LEGEND", has_rank /\ d.rank_status[uid].rank_name = "Diamond">>,
                <<"STREAK_MASTER", has_rank /\ d.rank_status[uid].streak_days >= 7>>,
                <<"PERFECT_10", score = total_questions /\ total_questions >= 10>>,
                <<"SPEED_DEMON", avg_time < 10 * Unit /\ total_questions >= 5>>,
                <<"BOSS_SLAYER", attempt_type = "boss_fight" /\ score >= 10>> >>
      codes == SelectSeq(due, LAMBDA p : p[2])
  IN unlock_each(d, uid, [i \in 1..Len(codes) |-> codes[i][1]])

\* lines 1144-1147, outside every inner try
check_achievements(w) ==
  LET c == w.c
  IN IF c.fault = "achievements" THEN [w EXCEPT !.c = internal_error(c)]
     ELSE [db |-> _check_achievements(w.db, c.uid, c.score, c.total, c.avg_time,
                                      c.attempt_type),
           c |-> Reply(Goto(c, After("achievements"), "achievements"), 200, TRUE)]

\* one stage of submit_attempt
Step(w) ==
  CASE w.c.pc = "lookup" -> lookup(w)
    [] w.c.pc = "answers" -> record_answers(w)
    [] w.c.pc = "finalize" -> finalize(w)
    [] w.c.pc = "xp" -> award_quiz_xp(w)
    [] w.c.pc = "rank" -> update_rank(w)
    [] w.c.pc = "mastery" -> update_mastery(w)
    [] w.c.pc = "readiness" -> update_readiness(w)
    [] w.c.pc = "notes" -> generate_notes(w)
    [] w.c.pc = "plan" -> generate_plan(w)
    [] w.c.pc = "achievements" -> check_achievements(w)
    [] OTHER -> w

\* the whole handler: every stage in turn until it returns
RECURSIVE submit_attempt(_)
submit_attempt(w) == IF w.c.pc = "done" THEN w ELSE submit_attempt(Step(w))

(***************************************************************************)
(* The request handlers as actions.  Each handles one request to its end.  *)
(***************************************************************************)
\* what the HTTP log keeps of a submit request and its response
SubmitLog(c) ==
  [op |-> "submit", uid |-> c.uid, session_id |-> c.session_id,
   n_answers |-> Len(c.answers),
   unknown_q |-> \E i \in 1..Len(c.answers) : c.answers[i].question_id \notin DOMAIN question_bank,
   fault |-> c.fault, code |-> c.code, success |-> c.success, stage_log |-> c.stage_log]

SubmitAttempt(uid, session_id, answers, duration, fault, order) ==
  LET w == submit_attempt([db |-> DB,
                           c |-> Request(uid, session_id, answers, duration, fault, order)])
  IN /\ Len(attempt_answers) + Len(answers) <= MaxAnswerRows
     /\ fault # "none" => raised < MaxFaults
     /\ Commit(w.db)
     /\ last' = SubmitLog(w.c)
     /\ raised' = IF fault = "none" THEN raised ELSE raised + 1
     /\ UNCHANGED <<classvars, inflight, arg, ret>>

\* a dashboard that writes the fresh rank row over an existing one
replace_rank_status(d, uid) ==
  [d EXCEPT !.rank_status = (uid :> [rank_name |-> "Bronze", xp_total |-> 0,
                                     streak_days |-> 0, readiness_score |-> 0]) @@ @]

\* _ensure_rank_status, lines 180-187
_ensure_rank_status(d, uid) ==
  IF uid \in DOMAIN d.rank_status THEN d
  ELSE [d EXCEPT !.rank_status = @ @@ (uid :> [rank_name |-> "Bronze", xp_total |-> 0,
                                               streak_days |-> 0, readiness_score |-> 0])]

\* arena_dashboard, lines 626-733: what it writes
arena_dashboard(d, uid) ==
  LET d1 == _ensure_rank_status(d, uid)
      d2 == IF uid \in DOMAIN d1.arena_profiles THEN d1
            ELSE [d1 EXCEPT !.arena_profiles = @ @@ (uid :> [exam |-> "JEE", subject |-> "Physics"])]
      profile == d2.arena_profiles[uid]
      readiness == _compute_readiness(
                     completed_attempts(d2, uid, profile.exam, profile.subject, 10))
  IN [d2 EXCEPT !.rank_status[uid].readiness_score = readiness]

Dashboard(uid) ==
  /\ Commit(arena_dashboard(DB, uid))
  /\ last' = [op |-> "dashboard", uid |-> uid, code |-> 200]
  /\ UNCHANGED <<classvars, inflight, raised, arg, ret>>

\* the question selection of lines 797-825 and 877-906: weak-topic questions, then
\* questions of the adaptive difficulty, then any question; o1, o2, o3 are the orders
\* RANDOM() gives in the three queries
select_questions(d, uid, exam, subject, difficulty, weak_limit, o1, o2, o3) ==
  LET bank == d.question_bank
      here == {q \in DOMAIN bank : bank[q].exam = exam /\ bank[q].subject = subject}
      tags == {key[4] : key \in {k \in DOMAIN d.topic_mastery :
                                   /\ k[1] = uid /\ k[2] = exam /\ k[3] = subject
                                   /\ d.topic_mastery[k].weak_flag = 1}}
      weak_q == IF tags # {}
                THEN RandomLimit({q \in here : bank[q].topic_tag \in tags}, o1, weak_limit)
                ELSE <<>>
      diff_q == IF QuizSize - Len(weak_q) > 0
                THEN RandomLimit({q \in here : bank[q].difficulty = difficulty}, o2,
                                 QuizSize - Len(weak_q))
                ELSE <<>>
      ids == weak_q \o diff_q
      extra == IF Len(ids) < QuizSize THEN RandomLimit(here, o3, QuizSize - Len(ids))
               ELSE <<>>
  IN ids \o extra

\* the INSERT of lines 827-832 and 908-913; the other columns take their defaults
new_attempt(uid, exam, subject, attempt_type, difficulty, final_ids) ==
  [student_id |-> uid, exam |-> exam, subject |-> subject, attempt_type |-> attempt_type,
   difficulty_start |-> difficulty, difficulty_end |-> "Medium", score |-> 0,
   total_questions |-> Len(final_ids), accuracy_percent |-> 0,
   avg_time_per_question |-> 0, xp_earned |-> 0, status |-> "ongoing",
   questions |-> final_ids]

\* a mock-test limit that counts the completed mock tests only
start_mock_counting_completed(d, uid, o1, o2, o3) ==
  LET profile == profile_of(d, uid)
      att == d.arena_attempts
      mock_count == Cardinality({i \in DOMAIN att :
                      /\ att[i].student_id = uid /\ att[i].attempt_type = "mock"
                      /\ att[i].exam = profile.exam /\ att[i].subject = profile.subject
                      /\ att[i].status = "completed"})
      difficulty == _pick_adaptive_difficulty(
                      completed_attempts(d, uid, profile.exam, profile.subject, 3))
      final_ids == select_questions(d, uid, profile.exam, profile.subject, difficulty,
                                    MockWeakLimit, o1, o2, o3)
  IN IF mock_count >= 3 THEN [db |-> d, code |-> 400]
     ELSE [db |-> [d EXCEPT !.arena_attempts =
                     Append(@, new_attempt(uid, profile.exam, profile.subject, "mock",
                                           difficulty, final_ids))],
           code |-> 200]

\* start_mock_test, lines 838-915: [db, code]
start_mock_test(d, uid, o1, o2, o3) ==
  LET profile == profile_of(d, uid)
      att == d.arena_attempts
      mock_count == Cardinality({i \in DOMAIN att :
                      /\ att[i].student_id = uid /\ att[i].attempt_type = "mock"
                      /\ att[i].exam = profile.exam /\ att[i].subject = profile.subject})
      difficulty == _pick_adaptive_difficulty(
                      completed_attempts(d, uid, profile.exam, profile.subject, 3))
      final_ids == select_questions(d, uid, profile.exam, profile.subject, difficulty,
                                    MockWeakLimit, o1, o2, o3)
  IN IF mock_count >= 3 THEN [db |-> d, code |-> 400]
     ELSE [db |-> [d EXCEPT !.arena_attempts =
                     Append(@, new_attempt(uid, profile.exam, profile.subject, "mock",
                                           difficulty, final_ids))],
           code |-> 200]

StartMock(uid, o1, o2, o3) ==
  LET r == start_mock_test(DB, uid, o1, o2, o3)
  IN /\ Len(arena_attempts) < MaxAttempts
     /\ Commit(r.db)
     /\ last' = [op |-> "start_mock", uid |-> uid, code |-> r.code]
     /\ UNCHANGED <<classvars, inflight, raised, arg, ret>>

\* start_daily_challenge, lines 777-835: [db, code]; every request falls on one day
start_daily_challenge(d, uid, o1, o2, o3) ==
  LET profile == profile_of(d, uid)
      att == d.arena_attempts
      daily_done == \E i \in DOMAIN att :
                      att[i].student_id = uid /\ att[i].attempt_type = "daily"
      difficulty == _pick_adaptive_difficulty(
                      completed_attempts(d, uid, profile.exam, profile.subject, 3))
      final_ids == select_questions(d, uid, profile.exam, profile.subject, difficulty,
                                    DailyWeakLimit, o1, o2, o3)
  IN IF daily_done THEN [db |-> d, code |-> 400]
     ELSE [db |-> [d EXCEPT !.arena_attempts =
                     Append(@, new_attempt(uid, profile.exam, profile.subject, "daily",
                                           difficulty, final_ids))],
           code |-> 200]

StartDaily(uid, o1, o2, o3) ==
  LET r == start_daily_challenge(DB, uid, o1, o2, o3)
  IN /\ Len(arena_attempts) < MaxAttempts
     /\ Commit(r.db)
     /\ last' = [op |-> "start_daily", uid |-> uid, code |-> r.code]
     /\ UNCHANGED <<classvars, inflight, raised, arg, ret>>

\* the exam and subject a profile can name with questions in the bank
ProfileChoices == {<<SeededBank[q].exam, SeededBank[q].subject>> : q \in DOMAIN SeededBank}

\* set_exam_profile, lines 737-768: UPDATE the row or INSERT it; the bank is seeded
set_exam_profile(d, uid, exam, subject) ==
  [d EXCEPT !.arena_profiles =
     (uid :> [exam |-> exam, subject |-> subject]) @@ @]

SetExamProfile(uid, exam, subject) ==
  /\ Commit(set_exam_profile(DB, uid, exam, subject))
  /\ last' = [op |-> "set_exam_profile", uid |-> uid, code |-> 200]
  /\ UNCHANGED <<classvars, inflight, raised, arg, ret>>

\* session_result and review_attempt, lines 1154-1171 and 1275-1289: reads only
ReadResult(uid, session_id) ==
  /\ last' = [op |-> "read",
              code |-> IF /\ session_id \in DOMAIN arena_attempts
                          /\ arena_attempts[session_id].student_id = uid
                          /\ arena_attempts[session_id].status = "completed"
                       THEN 200 ELSE 302]
  /\ UNCHANGED <<classvars, dbvars, inflight, raised, arg, ret>>

(***************************************************************************)
(* The inputs of the requests                                              *)
(***************************************************************************)
BankOrder == [i \in 1..Cardinality(DOMAIN SeededBank) |-> i]

\* orders RANDOM() can give the rows of the bank: by id, rising or falling
Orders == {BankOrder, Reverse(BankOrder)}

\* the questions attempt session_id was given; one question where there is no such attempt
questions_of(session_id) ==
  IF session_id \in DOMAIN arena_attempts /\ arena_attempts[session_id].questions # <<>>
  THEN arena_attempts[session_id].questions
  ELSE <<1>>

\* k answers for attempt session_id, the i-th for its i-th question (going round
\* when there are more answers than questions), the first `right' of them right
Payload(session_id, k, right) ==
  LET qs == questions_of(session_id)
  IN [i \in 1..k |-> [question_id |-> qs[((i - 1) % Len(qs)) + 1], correct |-> i <= right]]

\* the same with the last answer naming a question the bank does not have
WithUnknown(a) == [a EXCEPT ![Len(a)] = [question_id |-> UnknownQ, correct |-> FALSE]]

Durations == {20}

Stages == {"xp", "rank", "mastery", "readiness", "notes", "plan", "achievements"}

\* the submit requests of student uid for attempt session_id, n its number of
\* questions.  For an ongoing attempt of theirs: with no stage failing, no answer,
\* too few, n or too many answers, all right or all wrong, n answers with one
\* right, and n answers with an unknown question last; with each stage failing in
\* turn, n wrong answers.  For a completed attempt of theirs, n answers again.
\* For an attempt that is not theirs, n right answers.
Submissions(uid, session_id) ==
  LET n == Len(questions_of(session_id))
      sent(answers, faults) == [answers : answers, duration : Durations, fault : faults]
      all == {Payload(session_id, k, right) : k \in {0, n - 1, n, n + 1}, right \in {0, n + 1}}
             \cup {Payload(session_id, n, 1)}
      unknown == {WithUnknown(Payload(session_id, k, k)) : k \in {1, n}}
      mine == /\ session_id \in DOMAIN arena_attempts
              /\ arena_attempts[session_id].student_id = uid
  IN IF mine /\ arena_attempts[session_id].status = "ongoing"
     THEN sent(all \cup unknown, {"none"}) \cup sent({Payload(session_id, n, 0)}, Stages)
     ELSE IF mine
     THEN sent({Payload(session_id, n, right) : right \in {0, n}}, {"none"})
     ELSE sent({Payload(session_id, n, n)}, {"none"})

Init == InitDB /\ arg = <<>> /\ ret = "none"

Next ==
  \/ \E uid \in Learners : Dashboard(uid)
  \/ \E uid \in Learners, o1 \in Orders, o2 \in Orders, o3 \in Orders :
       StartMock(uid, o1, o2, o3)
  \/ \E uid \in Learners, o1 \in Orders, o2 \in Orders, o3 \in Orders :
       StartDaily(uid, o1, o2, o3)
  \/ \E uid \in Students, session_id \in 1..MaxAttempts :
       \E r \in Submissions(uid, session_id) :
         SubmitAttempt(uid, session_id, r.answers, r.duration, r.fault, BankOrder)
  \/ \E uid \in Learners, session_id \in 1..MaxAttempts : ReadResult(uid, session_id)

Spec == Init /\ [][Next]_vars

(***************************************************************************)
(* Two submit requests handled at once.  Flask serves requests on threads, *)
(* and every _db call of submit_attempt opens its own connection and       *)
(* commits (db_manager.py 55-71): between two stages of one request, any   *)
(* stage of the other can run.                                             *)
(***************************************************************************)
Slots == {1, 2}

\* student 1 has opened the dashboard and started a mock test: attempt 1 is ongoing
RaceDB == start_mock_test(arena_dashboard(EmptyDB, 1), 1, BankOrder, BankOrder, BankOrder).db

InitRace ==
  /\ Holds(RaceDB)
  /\ enrollments = <<>>
  /\ quiz_submissions = EmptyBag
  /\ leaderboard_scores = EmptyFn
  /\ inflight = [slot \in Slots |-> Idle]
  /\ last = NoRequest
  /\ raised = 0
  /\ arg = <<>>
  /\ ret = "none"

\* a request arrives: one answer per question of attempt 1, from its owner
BeginSubmit(slot, right) ==
  /\ inflight[slot].pc = "idle"
  /\ inflight' = [inflight EXCEPT ![slot] =
                    Request(1, 1, Payload(1, Len(questions_of(1)), right),
                            CHOOSE d \in Durations : TRUE, "none", BankOrder)]
  /\ UNCHANGED <<classvars, dbvars, last, raised, arg, ret>>

\* the request of a slot runs its next stage
StepSubmit(slot) ==
  LET w == Step([db |-> DB, c |-> inflight[slot]])
  IN /\ inflight[slot].pc \notin {"idle", "done"}
     /\ Commit(w.db)
     /\ inflight' = [inflight EXCEPT ![slot] = w.c]
     /\ last' = IF w.c.pc = "done" THEN SubmitLog(w.c) ELSE last
     /\ UNCHANGED <<classvars, raised, arg, ret>>

NextRace ==
  \/ \E slot \in Slots, right \in 0..QuizSize : BeginSubmit(slot, right)
  \/ \E slot \in Slots : StepSubmit(slot)

SpecRace == InitRace /\ [][NextRace]_vars

(***************************************************************************)
(* computeReadiness applied to two lists of attempts that differ in the    *)
(* score and the accuracy_percent of one attempt                           *)
(***************************************************************************)
MaxList == 3         \* attempts in a list (LIMIT 10, line 206)

ReadinessRows ==
  [score : 0..QuizSize, total_questions : {QuizSize},
   accuracy_percent : {0 * Unit, 35 * Unit, 80 * Unit},
   avg_time_per_question : {0, 30 * Unit},
   difficulty_start : {"Medium"}, difficulty_end : {"Easy", "Hard"}]

\* no readiness computed yet
NoReadiness == [lower |-> -1, higher |-> -1]

\* the score and the accuracy_percent an attempt is raised to
HigherValues == [score : 0..QuizSize, accuracy_percent : {35 * Unit, 80 * Unit, 100 * Unit}]

\* a list of 1 to MaxList rows, a position k in it, and values higher than those at k
InitReadiness ==
  /\ InitDB
  /\ \E m \in 1..MaxList : \E a \in [1..m -> ReadinessRows] :
       \E k \in 1..m : \E h \in HigherValues :
         /\ h.score > a[k].score
         /\ h.accuracy_percent > a[k].accuracy_percent
         /\ arg = [attempts |-> a, k |-> k, higher |-> h]
  /\ ret = NoReadiness

\* the list of arg with the attempt at position k raised
raised_list(r) ==
  [r.attempts EXCEPT ![r.k] = [@ EXCEPT !.score = r.higher.score,
                                        !.accuracy_percent = r.higher.accuracy_percent]]

ApplyReadiness ==
  /\ ret = NoReadiness
  /\ ret' = [lower |-> _compute_readiness(arg.attempts),
             higher |-> _compute_readiness(raised_list(arg))]
  /\ UNCHANGED <<classvars, sysvars, arg>>

SpecReadiness == InitReadiness /\ [][ApplyReadiness]_vars

(***************************************************************************)
(* selectNextDifficulty applied to a history drawn from HistoryRows        *)
(***************************************************************************)
MaxHistory == 3      \* LIMIT 3, line 256

HistoryRows ==
  [accuracy_percent : {0 * Unit, 35 * Unit, 40 * Unit, 60 * Unit, 80 * Unit, 100 * Unit},
   avg_time_per_question : {0, 30 * Unit, 45 * Unit, 60 * Unit, 100 * Unit},
   difficulty_end : {"Medium", "Hard"}]

\* the results the query of lines 255-258 can give: at most MaxHistory rows
Histories(n) == UNION {[1..k -> HistoryRows] : k \in 0..n}

InitDifficulty == InitDB /\ arg \in Histories(MaxHistory) /\ ret = "none"

ApplyDifficulty ==
  /\ ret = "none"
  /\ ret' = _pick_adaptive_difficulty(arg)
  /\ UNCHANGED <<classvars, sysvars, arg>>

SpecDifficulty == InitDifficulty /\ [][ApplyDifficulty]_vars

(***************************************************************************)
(* Properties of selectNextDifficulty, checked under SpecDifficulty        *)
(***************************************************************************)
Difficulties == {"Easy", "Medium", "Hard"}

\* the two most recent attempts of a history both failed
TwoFailures(recent) ==
  /\ Len(recent) >= 2
  /\ recent[1].accuracy_percent < 40 * Unit
  /\ recent[2].accuracy_percent < 40 * Unit

\* C7: for every history whose two most recent attempts both have
\* accuracy_percent < 40, selectNextDifficulty returns Easy, whatever the
\* avg_time_per_question values, the difficulty_end values and the third attempt are
C7_TwoFailuresForceEasy ==
  (ret # "none" /\ TwoFailures(arg)) => ret = "Easy"

\* two failures followed by a perfect attempt: the thresholds alone give Medium
C7_Witness ==
  /\ ret = "Easy"
  /\ Len(arg) = 3
  /\ TwoFailures(arg)
  /\ arg[3].accuracy_percent = 100 * Unit
  /\ ThresholdRule(arg) = "Medium"

\* the reference rule: Medium for no history; otherwise the thresholds on the
\* averages of accuracy and time with weights [0.5, 0.3, 0.2] renormalised to the
\* attempts available; a time of 0 is read as zero_as.  x >= t is checked as
\* sum(w x) >= t sum(w).
ReferenceRule(recent, zero_as) ==
  LET n == Len(recent)
      w == <<5, 3, 2>>
      time(r) == IF r.avg_time_per_question = 0 THEN zero_as ELSE r.avg_time_per_question
      wsum == SumSeq([i \in 1..n |-> w[i]])
      acc == SumSeq([i \in 1..n |-> w[i] * recent[i].accuracy_percent])
      speed == SumSeq([i \in 1..n |-> w[i] * time(recent[i])])
      atleast(x, t) == x >= t * Unit * wsum
      below(x, t) == x < t * Unit * wsum
      above(x, t) == x > t * Unit * wsum
  IN IF n = 0 THEN "Medium"
     ELSE IF atleast(acc, 85) /\ below(speed, 40) THEN "Hard"
     ELSE IF atleast(acc, 70) /\ below(speed, 50)
          THEN (IF recent[1].difficulty_end = "Medium" THEN "Hard" ELSE "Medium")
     ELSE IF atleast(acc, 50) /\ below(speed, 70) THEN "Medium"
     ELSE IF below(acc, 40) \/ above(speed, 90) THEN "Easy"
     ELSE "Medium"

\* C8 as stated: for every history of 0 to 3 completed attempts,
\* selectNextDifficulty returns a value in {Easy, Medium, Hard} equal to the
\* reference rule when no two-failure override is active
C8_AsStated ==
  ret # "none" =>
    /\ ret \in Difficulties
    /\ ~TwoFailures(arg) => ret = ReferenceRule(arg, 0)

\* C8: for every history of 0 to 3 completed attempts, selectNextDifficulty
\* returns a value in {Easy, Medium, Hard} equal to the reference rule with an
\* avg_time_per_question of 0 counted as 60 seconds, when no two-failure override
\* is active
C8_ReferenceRuleZeroAsSixty ==
  ret # "none" =>
    /\ ret \in Difficulties
    /\ ~TwoFailures(arg) => ret = ReferenceRule(arg, 60 * Unit)

\* a perfect attempt stored with avg_time_per_question 0: Medium, where the
\* average of the stored times gives Hard
C8_Witness ==
  /\ ret = "Medium"
  /\ Len(arg) = 1
  /\ arg[1].avg_time_per_question = 0
  /\ arg[1].accuracy_percent = 100 * Unit
  /\ ReferenceRule(arg, 0) = "Hard"

(***************************************************************************)
(* Properties of the submit operation, checked under Spec                  *)
(***************************************************************************)
\* the step handles a submit request of student uid for attempt session_id
SubmitStep(uid, session_id) ==
  /\ last'.op = "submit"
  /\ last'.uid = uid
  /\ last'.session_id = session_id

\* C1: the only status transition any sequence of start, submit and read
\* operations performs is ongoing -> completed: a completed attempt stays
\* completed, an attempt is created ongoing, and no other status is ever set
C1_StatusOnlyOngoingToCompleted ==
  [][/\ Len(arena_attempts') >= Len(arena_attempts)
     /\ \A i \in DOMAIN arena_attempts' :
          /\ arena_attempts'[i].status \in {"ongoing", "completed"}
          /\ i \notin DOMAIN arena_attempts => arena_attempts'[i].status = "ongoing"
          /\ (i \in DOMAIN arena_attempts /\ arena_attempts[i].status = "completed")
               => arena_attempts'[i].status = "completed"]_vars

\* an attempt was completed by a submit, another was started after it, and a read
\* came last
C1_Witness ==
  /\ Len(arena_attempts) = 2
  /\ arena_attempts[1].status = "completed"
  /\ arena_attempts[1].score > 0
  /\ arena_attempts[2].status = "ongoing"
  /\ last.op = "read"
  /\ last.code = 200

\* C3: a submit request for an attempt that is already completed leaves every
\* stored record unchanged (attempt rows, answer records, XP ledger, RankStatus,
\* TopicMastery, AI notes, revision plans, achievements), and when it comes from
\* the attempt's owner with answers it returns the success redirect
C3_ResubmitChangesNothing ==
  [][\A uid \in Students : \A session_id \in DOMAIN arena_attempts :
       (SubmitStep(uid, session_id) /\ arena_attempts[session_id].status = "completed")
         => /\ UNCHANGED dbvars
            /\ (arena_attempts[session_id].student_id = uid /\ last'.n_answers > 0)
                 => (last'.success /\ last'.code = 200)]_vars

\* the owner has sent answers for a completed attempt that has answer records, XP
\* and a RankStatus row, and got the success redirect with no stage run
C3_Witness ==
  /\ last.op = "submit"
  /\ last.success
  /\ last.stage_log = <<>>
  /\ last.n_answers > 0
  /\ last.session_id \in DOMAIN arena_attempts
  /\ arena_attempts[last.session_id].status = "completed"
  /\ arena_attempts[last.session_id].student_id = last.uid
  /\ \E i \in DOMAIN attempt_answers : attempt_answers[i].attempt_id = last.session_id
  /\ xp_log # <<>>
  /\ last.uid \in DOMAIN rank_status
  /\ rank_status[last.uid].xp_total > 0

\* the place of stage in a stage log, 0 when it did not run
Pos(log, stage) ==
  IF \E i \in DOMAIN log : log[i] = stage
  THEN CHOOSE i \in DOMAIN log : log[i] = stage /\ \A j \in 1..(i - 1) : log[j] # stage
  ELSE 0

Ran(log, stages) == \A stage \in stages : Pos(log, stage) > 0

\* C4 as stated: within the handling of one attempt completion the topic-mastery
\* update happens before the readiness computation, the readiness computation
\* before the rank recomputation, and the rank recomputation before the
\* leaderboard recalculation
C4_AsStated ==
  (last.op = "submit" /\ Ran(last.stage_log, {"mastery", "readiness", "rank"}))
    => /\ Pos(last.stage_log, "mastery") < Pos(last.stage_log, "readiness")
       /\ Pos(last.stage_log, "readiness") < Pos(last.stage_log, "rank")
       /\ Ran(last.stage_log, {"leaderboard"})
            => Pos(last.stage_log, "rank") < Pos(last.stage_log, "leaderboard")

\* C4: within the handling of one attempt completion with no stage failing, for a
\* student who has a RankStatus row, the rank recomputation happens first, then
\* the topic-mastery update, then the readiness computation, and there is no
\* leaderboard recalculation
C4_RankThenMasteryThenReadiness ==
  (/\ last.op = "submit"
   /\ last.success
   /\ last.stage_log # <<>>
   /\ last.fault = "none"
   /\ last.uid \in DOMAIN rank_status)
    => SelectSeq(last.stage_log,
                 LAMBDA stage : stage \in {"mastery", "readiness", "rank", "leaderboard"})
         = <<"rank", "mastery", "readiness">>

\* a completion that ran the three stages, with no stage failing
C4_Witness ==
  /\ last.op = "submit"
  /\ last.success
  /\ last.fault = "none"
  /\ Ran(last.stage_log, {"mastery", "readiness", "rank"})
  /\ last.uid \in DOMAIN rank_status
  /\ rank_status[last.uid].streak_days = 1

\* the request of the step is a valid submit of an ongoing attempt by its owner:
\* one answer per selected question, every question in the bank
ValidSubmitStep(uid, session_id) ==
  /\ SubmitStep(uid, session_id)
  /\ arena_attempts[session_id].status = "ongoing"
  /\ arena_attempts[session_id].student_id = uid
  /\ last'.n_answers = Len(arena_attempts[session_id].questions)
  /\ ~last'.unknown_q

\* C5: if a single enrichment stage raises during a submit of an ongoing attempt
\* with valid answers (XP award, rank update, mastery update, readiness update, AI
\* notes, revision plan or achievement check), the attempt is still recorded as
\* completed with its score and the submit still returns success
C5_FailedStageStillSucceeds ==
  [][\A uid \in Students : \A session_id \in DOMAIN arena_attempts :
       (ValidSubmitStep(uid, session_id) /\ last'.fault \in Stages)
         => /\ arena_attempts'[session_id].status = "completed"
            /\ arena_attempts'[session_id].xp_earned
                 = arena_attempts'[session_id].score * 10 + 50
            /\ last'.success
            /\ last'.code = 200]_vars

\* the request of the step fails validation: no such attempt, not the student's
\* attempt, a number of answers other than the attempt's number of selected
\* questions, or an answer for a question the bank does not have
InvalidSubmitStep(uid, session_id) ==
  /\ SubmitStep(uid, session_id)
  /\ \/ session_id \notin DOMAIN arena_attempts
     \/ arena_attempts[session_id].student_id # uid
     \/ last'.n_answers # Len(arena_attempts[session_id].questions)
     \/ last'.unknown_q

\* C6: a submit request that fails validation is rejected and commits no
\* mutation at all: no answer record is inserted and the attempt, the XP ledger
\* and RankStatus are unchanged
C6_InvalidSubmitCommitsNothing ==
  [][\A uid \in Students : \A session_id \in 1..MaxAttempts :
       InvalidSubmitStep(uid, session_id)
         => /\ ~last'.success
            /\ UNCHANGED <<arena_attempts, attempt_answers, xp_log, rank_status>>]_vars

\* C9: computeReadiness returns exactly 0 when the student has no completed
\* attempt for the exam and subject and a value within [0,100] otherwise, and the
\* readiness_score stored in RankStatus is within [0,100] (values in tenths)
C9_ReadinessInRange ==
  \A uid \in Students :
    LET profile == profile_of(DB, uid)
        attempts == completed_attempts(DB, uid, profile.exam, profile.subject, 10)
        readiness == _compute_readiness(attempts)
    IN /\ attempts = <<>> => readiness = 0
       /\ readiness \in 0..1000
       /\ uid \in DOMAIN rank_status => rank_status[uid].readiness_score \in 0..1000

\* a student whose completed attempt has more right answers than selected
\* questions: the sum of the components is above 100 and 100 is stored
C9_Witness ==
  \E uid \in DOMAIN rank_status :
    LET profile == profile_of(DB, uid)
        attempts == completed_attempts(DB, uid, profile.exam, profile.subject, 10)
    IN /\ attempts # <<>>
       /\ readiness_sum(attempts) > 100 * 100 * Unit
       /\ rank_status[uid].readiness_score = 1000

(***************************************************************************)
(* Two submit requests for one attempt, checked under SpecRace             *)
(***************************************************************************)
\* C2: when two submit requests for the same ongoing attempt are processed with
\* their database steps interleaved, the downstream mutations are applied once
\* for the attempt: one set of answer records, one XP ledger entry, one
\* xp_total increment of score*10+50 and one streak increment
C2_MutationsAppliedOnce ==
  (\A slot \in Slots : inflight[slot].pc = "done")
    => /\ Cardinality({i \in DOMAIN attempt_answers : attempt_answers[i].attempt_id = 1})
            = arena_attempts[1].total_questions
       /\ Cardinality({i \in DOMAIN xp_log : xp_log[i].source = "quiz"}) = 1
       /\ rank_status[1].xp_total = arena_attempts[1].score * 10 + 50
       /\ rank_status[1].streak_days = 1

(***************************************************************************)
(* Monotonicity of computeReadiness, checked under SpecReadiness           *)
(***************************************************************************)
\* C10: for two attempt lists that are identical except that one attempt has a
\* higher score and accuracy_percent, the readiness of the list with the higher
\* accuracy is greater than or equal to the readiness of the other
C10_MonotoneInAccuracy ==
  ret # NoReadiness => ret.higher >= ret.lower

\* raising the oldest of three attempts from a failure raises the readiness
C10_Witness ==
  /\ ret # NoReadiness
  /\ Len(arg.attempts) = 3
  /\ arg.k = 3
  /\ arg.attempts[3].accuracy_percent < 40 * Unit
  /\ arg.higher.accuracy_percent >= 40 * Unit
  /\ ret.higher > ret.lower
  /\ ret.higher < 1000

(***************************************************************************)
(* The topic-mastery stage of successive completions, seen from            *)
(* arena_topic_mastery.  _update_topic_mastery reads and writes only that  *)
(* table; a student completes any number of attempts over the days (one    *)
(* daily challenge per day, lines 783-788), each with some right and some  *)
(* wrong answers on the questions of one topic.                            *)
(***************************************************************************)
MaxTopicAnswers == 2   \* answers of one attempt that reach the mastery stage

\* the questions of the bank on Mechanics
MechanicsQuestions == {q \in DOMAIN SeededBank : SeededBank[q].topic_tag = "Mechanics"}

\* up to n answers on Mechanics as submit_attempt hands them over: [wrong, correct],
\* sequences of question ids
AnswerSplits(n) ==
  {[wrong |-> SelectSeq([i \in DOMAIN a |-> IF a[i][2] THEN 0 ELSE a[i][1]],
                        LAMBDA q : q # 0),
    correct |-> SelectSeq([i \in DOMAIN a |-> IF a[i][2] THEN a[i][1] ELSE 0],
                          LAMBDA q : q # 0)] :
     a \in UNION {[1..k -> MechanicsQuestions \X BOOLEAN] : k \in 1..n}}

InitMastery == InitDB /\ arg = <<>> /\ ret = "none"

\* lines 1105-1109 for student 1 on JEE Physics
CompleteOnTopics(split) ==
  /\ Commit(_update_topic_mastery(DB, 1, "JEE", "Physics", split.wrong, split.correct))
  /\ arg' = split
  /\ UNCHANGED <<classvars, inflight, last, raised, ret>>

NextMastery == \E split \in AnswerSplits(MaxTopicAnswers) : CompleteOnTopics(split)

SpecMastery == InitMastery /\ [][NextMastery]_vars

\* C11: every stored TopicMastery row has mastery_score within [0,100] and has
\* weak_flag set exactly when its stored mastery_score is below 50 (tenths)
C11_WeakFlagMatchesStoredScore ==
  \A key \in DOMAIN topic_mastery :
    /\ topic_mastery[key].mastery_score \in 0..1000
    /\ topic_mastery[key].weak_flag = 1 <=> topic_mastery[key].mastery_score < 500

\* the row of Mechanics for the student of SpecMastery
MechanicsKey == <<1, "JEE", "Physics", "Mechanics">>

\* C12 as stated: after an attempt with c of t answers on a topic right
\* (a = 100 c / t), the stored mastery_score is exactly 0.7 a + 0.3 m when the
\* row held m, and exactly a when there was no row.
C12_AsStated ==
  [][LET c == Len(arg'.correct)
         t == c + Len(arg'.wrong)
     IN /\ MechanicsKey \in DOMAIN topic_mastery'
        /\ IF MechanicsKey \in DOMAIN topic_mastery
           THEN 10 * t * topic_mastery'[MechanicsKey].mastery_score
                  = 7000 * c + 3 * t * topic_mastery[MechanicsKey].mastery_score
           ELSE t * topic_mastery'[MechanicsKey].mastery_score = 1000 * c]_vars

\* C12, amended: the stored mastery_score is 0.7 a + 0.3 m rounded to one
\* decimal when the row held m, a rounded to one decimal when there was no
\* row; no other row changes and the topic has a single row.
C12_BlendRoundedToOneDecimal ==
  [][LET c == Len(arg'.correct)
         t == c + Len(arg'.wrong)
         m == topic_mastery[MechanicsKey].mastery_score
         stored == topic_mastery'[MechanicsKey].mastery_score
     IN /\ DOMAIN topic_mastery' = {MechanicsKey}
        /\ IF MechanicsKey \in DOMAIN topic_mastery
           THEN /\ 20 * t * stored <= 2 * (7000 * c + 3 * t * m) + 10 * t
                /\ 20 * t * stored > 2 * (7000 * c + 3 * t * m) - 10 * t
           ELSE /\ 2 * t * stored <= 2000 * c + t
                /\ 2 * t * stored > 2000 * c - t]_vars

\* the row holds 48.7 after an attempt with 1 of 2 answers right: it held 45.5,
\* and 0.7 * 50 + 0.3 * 45.5 = 48.65 is not a one-decimal number
C12_Witness ==
  /\ MechanicsKey \in DOMAIN topic_mastery
  /\ topic_mastery[MechanicsKey].mastery_score = 487
  /\ Len(arg.correct) = 1 /\ Len(arg.wrong) = 1

(***************************************************************************)
(* computeRank applied to two triples (xp, accuracy, streak) that differ   *)
(* in one input                                                            *)
(***************************************************************************)
RankInputs ==
  [xp : {0, 1, 299, 300, 599, 600, 999, 1000, 1599, 1600, 2000},
   accuracy : {0, 1, 50 * Unit - 1, 50 * Unit, 90 * Unit, 100 * Unit},
   streak : {0, 1, 10, 15, 30}]

\* no rank computed yet
NoRank == [lower |-> "none", higher |-> "none"]

\* a triple and a second one with one input raised
InitRank ==
  /\ InitDB
  /\ \E lo \in RankInputs : \E hi \in RankInputs :
       /\ \/ hi.xp > lo.xp /\ hi.accuracy = lo.accuracy /\ hi.streak = lo.streak
          \/ hi.xp = lo.xp /\ hi.accuracy > lo.accuracy /\ hi.streak = lo.streak
          \/ hi.xp = lo.xp /\ hi.accuracy = lo.accuracy /\ hi.streak > lo.streak
       /\ arg = [lower |-> lo, higher |-> hi]
  /\ ret = NoRank

ApplyRank ==
  /\ ret = NoRank
  /\ ret' = [lower |-> _calculate_rank(arg.lower.xp, arg.lower.accuracy, arg.lower.streak),
             higher |-> _calculate_rank(arg.higher.xp, arg.higher.accuracy, arg.higher.streak)]
  /\ UNCHANGED <<classvars, sysvars, arg>>

SpecRank == InitRank /\ [][ApplyRank]_vars

\* the tiers from the lowest to the highest
Tiers == <<"Bronze", "Silver", "Gold", "Platinum", "Diamond">>

TierIndex(rank) == CHOOSE i \in DOMAIN Tiers : Tiers[i] = rank

\* the tier the thresholds 150, 300, 500, 800 give to xp*0.5 + accuracy*3 + streak*10
TierOf(r) ==
  LET twice == Unit * r.xp + 6 * r.accuracy + 20 * Unit * r.streak
      reached == {i \in 2..5 : twice >= 2 * Unit * <<0, 150, 300, 500, 800>>[i]}
  IN Tiers[IF reached = {} THEN 1 ELSE CHOOSE i \in reached : \A j \in reached : j <= i]

\* C13: computeRank returns the tier of the thresholds 800, 500, 300, 150 on
\* xp*0.5 + accuracy*3 + streak*10; (0,0,0) is Bronze, (2000,90,10) is Diamond;
\* raising one input never lowers the tier.
C13_TierByThresholdsAndMonotone ==
  ret # NoRank =>
    /\ ret.lower = TierOf(arg.lower)
    /\ ret.higher = TierOf(arg.higher)
    /\ arg.lower = [xp |-> 0, accuracy |-> 0, streak |-> 0] => ret.lower = "Bronze"
    /\ arg.higher = [xp |-> 2000, accuracy |-> 90 * Unit, streak |-> 10] => ret.higher = "Diamond"
    /\ TierIndex(ret.higher) >= TierIndex(ret.lower)

\* xp 1599 with nothing else is Platinum, one more xp point reaches 800 and Diamond
C13_Witness ==
  /\ ret # NoRank
  /\ arg.lower = [xp |-> 1599, accuracy |-> 0, streak |-> 0]
  /\ arg.higher = [xp |-> 1600, accuracy |-> 0, streak |-> 0]
  /\ ret = [lower |-> "Platinum", higher |-> "Diamond"]

(***************************************************************************)
(* The XP ledger (arena_xp_log) and arena_rank_status.xp_total             *)
(***************************************************************************)
\* the ledger entries of a student, in the order they were written
ledger_of(log, uid) == SelectSeq(log, LAMBDA e : e.student_id = uid)

\* the sum of the amounts of a student's ledger entries
ledger_sum(log, uid) ==
  LET entries == ledger_of(log, uid)
  IN SumSeq([i \in DOMAIN entries |-> entries[i].amount])

\* C14: in every reachable state the xp_total of each student's rank row is
\* the sum of the amounts of the student's ledger entries, with one quiz
\* entry of score*10+50 per completed attempt and one entry of 100 per
\* unlocked achievement.
C14_XpTotalIsLedgerSum ==
  \A uid \in DOMAIN rank_status :
    /\ rank_status[uid].xp_total = ledger_sum(xp_log, uid)
    /\ \A i \in DOMAIN arena_attempts :
         arena_attempts[i].student_id = uid /\ arena_attempts[i].status = "completed" =>
           Cardinality({k \in DOMAIN xp_log :
                          /\ xp_log[k].student_id = uid
                          /\ xp_log[k].source = "quiz"
                          /\ xp_log[k].amount = arena_attempts[i].score * 10 + 50}) >= 1
    /\ Cardinality({k \in DOMAIN xp_log : xp_log[k].student_id = uid /\ xp_log[k].source = "quiz"})
         = Cardinality({i \in DOMAIN arena_attempts :
                          arena_attempts[i].student_id = uid /\ arena_attempts[i].status = "completed"})
    /\ Cardinality({k \in DOMAIN xp_log :
                      xp_log[k].student_id = uid /\ xp_log[k].source = "achievement"})
         = Cardinality({a \in achievements : a[1] = uid})
    /\ \A k \in DOMAIN xp_log :
         xp_log[k].student_id = uid /\ xp_log[k].source = "achievement" => xp_log[k].amount = 100

(***************************************************************************)
(* Every operation of the arena on one student, the profile change         *)
(* included, with the questions drawn in the order of the bank             *)
(***************************************************************************)
NextXp ==
  \/ \E uid \in Learners : Dashboard(uid)
  \/ \E uid \in Learners, p \in ProfileChoices : SetExamProfile(uid, p[1], p[2])
  \/ \E uid \in Learners : StartMock(uid, BankOrder, BankOrder, BankOrder)
  \/ \E uid \in Learners : StartDaily(uid, BankOrder, BankOrder, BankOrder)
  \/ \E uid \in Learners, session_id \in 1..MaxAttempts :
       \E r \in Submissions(uid, session_id) :
         SubmitAttempt(uid, session_id, r.answers, r.duration, r.fault, BankOrder)

SpecXp == Init /\ [][NextXp]_vars

\* C15: no operation lowers a student's xp_total or removes the rank row, and
\* the XP ledger only grows at its end.
C15_XpNeverDecreases ==
  [][/\ \A uid \in DOMAIN rank_status :
          /\ uid \in DOMAIN rank_status'
          /\ rank_status'[uid].xp_total >= rank_status[uid].xp_total
      /\ Len(xp_log') >= Len(xp_log)
      /\ SubSeq(xp_log', 1, Len(xp_log)) = xp_log]_vars

\* a submission has raised the xp_total of a student who holds a rank row and
\* added to the ledger
C15_Witness ==
  /\ last.op = "submit"
  /\ last.uid \in DOMAIN rank_status
  /\ rank_status[last.uid].xp_total > 0
  /\ Len(xp_log) >= 2

(***************************************************************************)
(* LeaderboardEngine (modules/leaderboard_engine.py) and the handlers of   *)
(* app.py that feed it, for one class.  avg_score and efficiency_score are *)
(* held in tenths, composite_score in hundredths.                          *)
(***************************************************************************)
ClassStudents == {1, 2}       \* users who hold the class code
ClassQuizzes == {1, 2}        \* quizzes of the class
QuizQuestions == 2            \* questions of each quiz
MaxQuizSubmissions == 3       \* rows of quiz_submissions
AttemptLimit == 3             \* app.py line 2245

\* round(a / b) to the nearest integer, halves up; a >= 0, b > 0
RoundDiv(a, b) == (2 * a + b) \div (2 * b)

\* the rows of quiz_submissions of a student, one per copy, as a sequence
RECURSIVE BagRows(_)
BagRows(B) ==
  IF BagToSet(B) = {} THEN <<>>
  ELSE LET r == CHOOSE x \in BagToSet(B) : TRUE
       IN <<r>> \o BagRows(B (-) SetToBag({r}))

submissions_of(subs, sid) == SelectSeq(BagRows(subs), LAMBDA r : r.student_id = sid)

\* the sum of score/total over rows, as a fraction <<numerator, denominator>>
RECURSIVE ratio_sum(_)
ratio_sum(rows) ==
  IF rows = <<>> THEN <<0, 1>>
  ELSE LET rest == ratio_sum(Tail(rows))
           r == Head(rows)
       IN <<r.score * rest[2] + rest[1] * r.total, r.total * rest[2]>>

\* lines 38-71: the entry of one enrolled student
entry_of(subs, sid, total_quizzes) ==
  LET rows == submissions_of(subs, sid)
      quizzes_done == Len(rows)
      total_correct == SumSeq([i \in DOMAIN rows |-> rows[i].score])
      total_questions == SumSeq([i \in DOMAIN rows |-> rows[i].total])
      ratio == ratio_sum(rows)
      \* AVG(score / total * 100) in tenths, rounded to one decimal (line 49)
      avg_score == IF quizzes_done = 0 THEN 0
                   ELSE RoundDiv(1000 * ratio[1], ratio[2] * quizzes_done)
      \* min(100, quizzes_done / total_quizzes * 100), times total_quizzes
      completion == Min(100 * total_quizzes, 100 * quizzes_done)
      tq == IF total_questions > 0 THEN total_questions ELSE 1
      \* 100 * (0.60 avg + 0.25 completion + 0.15 efficiency), rounded (line 61)
      composite == RoundDiv(6 * avg_score * total_quizzes * tq + 25 * completion * tq
                              + 1500 * total_correct * total_quizzes,
                            total_quizzes * tq)
  IN [student_id |-> sid, avg_score |-> avg_score, quizzes_completed |-> quizzes_done,
      total_correct |-> total_correct, total_questions |-> total_questions,
      efficiency |-> RoundDiv(1000 * total_correct, tq), composite |-> composite]

\* list.sort(key=composite, reverse=True), line 74: stable, equal keys keep their order
RECURSIVE sort_by_composite(_)
sort_by_composite(entries) ==
  IF entries = <<>> THEN <<>>
  ELSE LET e == entries[Len(entries)]
           sorted == sort_by_composite(SubSeq(entries, 1, Len(entries) - 1))
           before == SelectSeq(sorted, LAMBDA x : x.composite >= e.composite)
           after == SelectSeq(sorted, LAMBDA x : x.composite < e.composite)
       IN before \o <<e>> \o after

\* lines 22-74: the sorted entries of the enrolled students
ranked_entries(enrolled, subs) ==
  LET total_quizzes == IF ClassQuizzes = {} THEN 1 ELSE Cardinality(ClassQuizzes)
  IN sort_by_composite([i \in DOMAIN enrolled |-> entry_of(subs, enrolled[i], total_quizzes)])

\* lines 78-95: one INSERT ... ON CONFLICT(student_id, class_id) DO UPDATE
upsert(scores, e, rank) ==
  (e.student_id :> [avg_score |-> e.avg_score, quizzes_completed |-> e.quizzes_completed,
                    total_correct |-> e.total_correct, total_questions |-> e.total_questions,
                    efficiency_score |-> e.efficiency, composite_score |-> e.composite,
                    rank_position |-> rank]) @@ scores

RECURSIVE upsert_from(_, _, _)
upsert_from(scores, entries, rank) ==
  IF rank > Len(entries) THEN scores
  ELSE upsert_from(upsert(scores, entries[rank], rank), entries, rank + 1)

\* recalculate_class, lines 18-100: the table it leaves
recalculate_class(enrolled, subs, scores) ==
  IF enrolled = <<>> THEN scores
  ELSE upsert_from(scores, ranked_entries(enrolled, subs), 1)

\* sequences that hold each element of S once
Permutations_of(S) ==
  {p \in [1..Cardinality(S) -> S] : \A i, j \in 1..Cardinality(S) : p[i] = p[j] => i = j}

\* a leaderboard query without the filter on quizzes_completed
leaderboard_of_all_rows(scores, limit) ==
  LET orders == {p \in Permutations_of(DOMAIN scores) :
                   \A i, j \in DOMAIN p :
                     i < j => scores[p[i]].composite_score >= scores[p[j]].composite_score}
  IN {[i \in 1..Min(limit, Len(p)) |->
         [rank |-> i, student_id |-> p[i],
          avg_score |-> scores[p[i]].avg_score,
          quizzes_completed |-> scores[p[i]].quizzes_completed,
          efficiency |-> scores[p[i]].efficiency_score,
          composite_score |-> scores[p[i]].composite_score]] : p \in orders}

\* get_class_leaderboard, lines 102-132: the results the query can give; rows of
\* equal composite_score come in an order ORDER BY leaves open
get_class_leaderboard(scores, limit) ==
  LET shown == {sid \in DOMAIN scores : scores[sid].quizzes_completed > 0}
      orders == {p \in Permutations_of(shown) :
                   \A i, j \in DOMAIN p :
                     i < j => scores[p[i]].composite_score >= scores[p[j]].composite_score}
  IN {[i \in 1..Min(limit, Len(p)) |->
         [rank |-> i, student_id |-> p[i],
          avg_score |-> scores[p[i]].avg_score,
          quizzes_completed |-> scores[p[i]].quizzes_completed,
          efficiency |-> scores[p[i]].efficiency_score,
          composite_score |-> scores[p[i]].composite_score]] : p \in orders}

\* join_class, app.py 1725-1763
JoinClass(sid) ==
  /\ \A i \in DOMAIN enrollments : enrollments[i] # sid
  /\ enrollments' = Append(enrollments, sid)
  /\ last' = [op |-> "join_class", uid |-> sid, code |-> 201]
  /\ UNCHANGED <<dbvars, quiz_submissions, leaderboard_scores, inflight, raised, arg, ret>>

\* leave_class, app.py 1765-1796: the enrollment row is deleted, nothing else
LeaveClass(sid) ==
  /\ \E i \in DOMAIN enrollments : enrollments[i] = sid
  /\ enrollments' = SelectSeq(enrollments, LAMBDA x : x # sid)
  /\ last' = [op |-> "leave_class", uid |-> sid, code |-> 200]
  /\ UNCHANGED <<dbvars, quiz_submissions, leaderboard_scores, inflight, raised, arg, ret>>

is_enrolled(sid) == \E i \in DOMAIN enrollments : enrollments[i] = sid

attempts_count(subs, sid, quiz_id) ==
  Len(SelectSeq(submissions_of(subs, sid), LAMBDA r : r.quiz_id = quiz_id))

\* submit_quiz, app.py 2228-2410: 403 without enrollment, no new row after
\* AttemptLimit attempts, else the row is saved and the class recalculated
SubmitQuiz(sid, quiz_id, score) ==
  /\ BagCardinality(quiz_submissions) < MaxQuizSubmissions
  /\ IF ~is_enrolled(sid)
     THEN /\ last' = [op |-> "submit_quiz", uid |-> sid, code |-> 403]
          /\ UNCHANGED <<quiz_submissions, leaderboard_scores>>
     ELSE IF attempts_count(quiz_submissions, sid, quiz_id) >= AttemptLimit
     THEN /\ last' = [op |-> "submit_quiz", uid |-> sid, code |-> 200, saved |-> FALSE]
          /\ UNCHANGED <<quiz_submissions, leaderboard_scores>>
     ELSE /\ quiz_submissions' = quiz_submissions (+)
               SetToBag({[quiz_id |-> quiz_id, student_id |-> sid, score |-> score,
                          total |-> QuizQuestions]})
          /\ leaderboard_scores' =
               recalculate_class(enrollments, quiz_submissions', leaderboard_scores)
          /\ last' = [op |-> "submit_quiz", uid |-> sid, code |-> 200, saved |-> TRUE]
  /\ UNCHANGED <<dbvars, enrollments, inflight, raised, arg, ret>>

\* recalculate_class called on its own
RecalculateClass ==
  /\ leaderboard_scores' = recalculate_class(enrollments, quiz_submissions, leaderboard_scores)
  /\ last' = [op |-> "recalculate_class", done |-> enrollments # <<>>]
  /\ UNCHANGED <<dbvars, enrollments, quiz_submissions, inflight, raised, arg, ret>>

\* GET /api/leaderboard/<class_id>, app.py 1501-1510: limit is 10;
\* rows holds what the SELECT of lines 105-113 returned (lb.*), by student
ReadLeaderboard ==
  /\ \E board \in get_class_leaderboard(leaderboard_scores, 10) :
       last' = [op |-> "leaderboard", code |-> 200, data |-> board,
                rows |-> [sid \in {board[i].student_id : i \in DOMAIN board} |->
                            leaderboard_scores[sid]]]
  /\ UNCHANGED <<dbvars, classvars, inflight, raised, arg, ret>>

NextBoard ==
  \/ \E sid \in ClassStudents : JoinClass(sid)
  \/ \E sid \in ClassStudents : LeaveClass(sid)
  \/ \E sid \in ClassStudents, quiz_id \in ClassQuizzes, score \in 0..QuizQuestions :
       SubmitQuiz(sid, quiz_id, score)
  \/ RecalculateClass
  \/ ReadLeaderboard

SpecBoard == Init /\ [][NextBoard]_vars

\* the last request ran recalculate_class to its end
Recalculated ==
  \/ last.op = "submit_quiz" /\ last.code = 200 /\ last.saved
  \/ last.op = "recalculate_class" /\ last.done

\* the rows of S are a ranking: positions pairwise distinct and in the order of
\* composite_score, highest first
IsRanking(scores, S) ==
  \A a, b \in S :
    a # b => /\ scores[a].rank_position # scores[b].rank_position
             /\ scores[a].rank_position < scores[b].rank_position
                  => scores[a].composite_score >= scores[b].composite_score

\* C16: after recalculate_class has completed, whatever joins, leaves, quiz
\* submissions and recalculations came before, the leaderboard_scores rows of
\* the class have pairwise distinct rank_position, in the order of
\* composite_score descending.
C16_RowsOfClassAreRanking ==
  Recalculated => IsRanking(leaderboard_scores, DOMAIN leaderboard_scores)

\* the same for the rows of the students enrolled at the recalculation, ties in
\* the order of enrollment
EnrolledRowsAreRanking ==
  Recalculated =>
    /\ IsRanking(leaderboard_scores, {enrollments[i] : i \in DOMAIN enrollments})
    /\ \A i, j \in DOMAIN enrollments :
         /\ i < j
         /\ leaderboard_scores[enrollments[i]].composite_score
              = leaderboard_scores[enrollments[j]].composite_score
         => leaderboard_scores[enrollments[i]].rank_position
              < leaderboard_scores[enrollments[j]].rank_position

(***************************************************************************)
(* recalculate_class upsert by upsert.  Every execute_insert opens its own *)
(* connection and commits (db_manager.py 55-63), so the requests of other  *)
(* workers run between two upserts of one recalculation.                   *)
(***************************************************************************)
\* submit_quiz up to line 74 of recalculate_class: the row is saved and the
\* entries are computed and sorted
BeginSubmitQuiz(slot, sid, quiz_id, score) ==
  /\ inflight[slot] = Idle
  /\ is_enrolled(sid)
  /\ attempts_count(quiz_submissions, sid, quiz_id) < AttemptLimit
  /\ BagCardinality(quiz_submissions) < MaxQuizSubmissions
  /\ quiz_submissions' = quiz_submissions (+)
       SetToBag({[quiz_id |-> quiz_id, student_id |-> sid, score |-> score,
                  total |-> QuizQuestions]})
  /\ inflight' = [inflight EXCEPT ![slot] =
                    [pc |-> "upsert", rank |-> 1,
                     entries |-> ranked_entries(enrollments, quiz_submissions')]]
  /\ last' = [op |-> "submit_quiz", uid |-> sid, code |-> 0]
  /\ UNCHANGED <<dbvars, enrollments, leaderboard_scores, raised, arg, ret>>

\* one turn of the loop of lines 77-95
UpsertEntry(slot) ==
  /\ inflight[slot] # Idle
  /\ LET c == inflight[slot]
     IN /\ leaderboard_scores' = upsert(leaderboard_scores, c.entries[c.rank], c.rank)
        /\ inflight' = [inflight EXCEPT ![slot] =
                          IF c.rank = Len(c.entries) THEN Idle
                          ELSE [c EXCEPT !.rank = @ + 1]]
        /\ last' = [op |-> "upsert", slot |-> slot]
  /\ UNCHANGED <<dbvars, enrollments, quiz_submissions, raised, arg, ret>>

NextBoardRace ==
  \/ \E sid \in ClassStudents : JoinClass(sid)
  \/ \E slot \in DOMAIN inflight, sid \in ClassStudents, quiz_id \in ClassQuizzes,
        score \in 0..QuizQuestions : BeginSubmitQuiz(slot, sid, quiz_id, score)
  \/ \E slot \in DOMAIN inflight : UpsertEntry(slot)
  \/ ReadLeaderboard

SpecBoardRace == Init /\ [][NextBoardRace]_vars

\* C17: whatever a reader of the class leaderboard is given while
\* recalculations run is a complete ranking: the rows it reads carry
\* pairwise distinct rank_position in the order of composite_score.
C17_ReaderSeesCompleteRanking ==
  last.op = "leaderboard" => IsRanking(last.rows, DOMAIN last.rows)

(***************************************************************************)
(* get_class_leaderboard applied to a stored table and a limit             *)
(***************************************************************************)
BoardStudents == {1, 2, 3}

\* a stored row with the given composite_score and quizzes_completed
StoredRow(composite, done) ==
  [avg_score |-> 0, quizzes_completed |-> done, total_correct |-> 0,
   total_questions |-> 2 * done, efficiency_score |-> 0,
   composite_score |-> composite, rank_position |-> 1]

StoredRows == {StoredRow(composite, done) : composite \in {6020, 7000, 8550}, done \in {0, 1}}

Limits == {0, 1, 2, 3, 10}

NoBoard == [done |-> FALSE]

InitLeaderboard ==
  /\ Holds(EmptyDB)
  /\ inflight = [slot \in {1, 2} |-> Idle]
  /\ last = NoRequest
  /\ raised = 0
  /\ enrollments = <<>>
  /\ quiz_submissions = EmptyBag
  /\ \E S \in SUBSET BoardStudents : leaderboard_scores \in [S -> StoredRows]
  /\ arg \in Limits
  /\ ret = NoBoard

ApplyLeaderboard ==
  /\ ret = NoBoard
  /\ \E board \in get_class_leaderboard(leaderboard_scores, arg) :
       ret' = [done |-> TRUE, board |-> board]
  /\ UNCHANGED <<classvars, sysvars, arg>>

SpecLeaderboard == InitLeaderboard /\ [][ApplyLeaderboard]_vars

\* the example of the claim: composites 70.0, 85.5 and 60.2, every student with a quiz
ExampleScores ==
  (1 :> StoredRow(7000, 1)) @@ (2 :> StoredRow(8550, 1)) @@ (3 :> StoredRow(6020, 1))

\* C18: get_class_leaderboard returns at most limit entries, only of students
\* with quizzes_completed > 0, in non-increasing order of composite_score, the
\* i-th entry with rank i; composites [70.0, 85.5, 60.2] come back as
\* [85.5, 70.0, 60.2] with ranks [1, 2, 3]; no stored table changes.
C18_BoardSortedRankedLimited ==
  [][ret'.done =>
       LET board == ret'.board
       IN /\ Len(board) <= arg
          /\ \A i \in DOMAIN board :
               /\ board[i].rank = i
               /\ board[i].student_id \in DOMAIN leaderboard_scores
               /\ leaderboard_scores[board[i].student_id].quizzes_completed > 0
               /\ board[i].composite_score
                    = leaderboard_scores[board[i].student_id].composite_score
          /\ \A i, j \in DOMAIN board :
               i < j => board[i].composite_score >= board[j].composite_score
          /\ leaderboard_scores = ExampleScores /\ arg >= 3 =>
               /\ [i \in DOMAIN board |-> board[i].composite_score] = <<8550, 7000, 6020>>
               /\ [i \in DOMAIN board |-> board[i].rank] = <<1, 2, 3>>
          /\ UNCHANGED <<classvars, dbvars>>]_vars

\* the example has been read with a limit that fits it
C18_Witness ==
  /\ ret.done
  /\ leaderboard_scores = ExampleScores
  /\ arg = 3
  /\ Len(ret.board) = 3

(***************************************************************************)
(* One student through the mock tests the limit allows and the daily       *)
(* challenge of a day, no database call failing                            *)
(***************************************************************************)
MaxPlanAttempts == 4     \* three mock tests (line 852) and one daily challenge

StartNextMock(uid) ==
  LET r == start_mock_test(DB, uid, BankOrder, BankOrder, BankOrder)
  IN /\ Len(arena_attempts) < MaxPlanAttempts
     /\ Commit(r.db)
     /\ last' = [op |-> "start_mock", uid |-> uid, code |-> r.code]
     /\ UNCHANGED <<classvars, inflight, raised, arg, ret>>

StartTheDaily(uid) ==
  LET r == start_daily_challenge(DB, uid, BankOrder, BankOrder, BankOrder)
  IN /\ Len(arena_attempts) < MaxPlanAttempts
     /\ Commit(r.db)
     /\ last' = [op |-> "start_daily", uid |-> uid, code |-> r.code]
     /\ UNCHANGED <<classvars, inflight, raised, arg, ret>>

\* submit an ongoing attempt with an answer to every question, the first `right' right
SubmitAnswered(uid, session_id, right) ==
  LET w == submit_attempt([db |-> DB,
                           c |-> Request(uid, session_id,
                                         Payload(session_id, Len(questions_of(session_id)), right),
                                         20, "none", BankOrder)])
  IN /\ session_id \in DOMAIN arena_attempts
     /\ arena_attempts[session_id].status = "ongoing"
     /\ Commit(w.db)
     /\ last' = SubmitLog(w.c)
     /\ UNCHANGED <<classvars, inflight, raised, arg, ret>>

NextPlan ==
  \/ \E uid \in Learners : StartNextMock(uid)
  \/ \E uid \in Learners : StartTheDaily(uid)
  \/ \E uid \in Learners, session_id \in 1..MaxPlanAttempts, right \in 0..QuizSize :
       SubmitAnswered(uid, session_id, right)

SpecPlan == Init /\ [][NextPlan]_vars

\* the completed mock attempts of the student, exam and subject of attempt a
completed_mocks(attempts, a) ==
  {i \in DOMAIN attempts :
     /\ attempts[i].student_id = a.student_id /\ attempts[i].attempt_type = "mock"
     /\ attempts[i].exam = a.exam /\ attempts[i].subject = a.subject
     /\ attempts[i].status = "completed"}

\* C19: when an attempt completes, a revision plan is written for it exactly
\* when it has a wrong answer and (the student's completed mock attempts for
\* the exam and subject are 3 or more, or its accuracy is below 40%); without
\* a wrong answer no plan is written.
C19_PlanIffWrongAndThirdOrLow ==
  [][\A sid \in DOMAIN arena_attempts :
       arena_attempts[sid].status = "ongoing" /\ arena_attempts'[sid].status = "completed" =>
         LET a == arena_attempts'[sid]
             wrong == {i \in DOMAIN attempt_answers' :
                         /\ attempt_answers'[i].attempt_id = sid
                         /\ ~attempt_answers'[i].is_correct}
             written == {k \in DOMAIN revision_plans' \ DOMAIN revision_plans :
                           revision_plans'[k].attempt_id = sid}
         IN /\ written # {} <=>
                 /\ wrong # {}
                 /\ \/ Cardinality(completed_mocks(arena_attempts', a)) >= 3
                    \/ a.accuracy_percent < 40 * Unit
            /\ Len(revision_plans') = Len(revision_plans) + Cardinality(written)]_vars

\* the third mock test completed with half of the answers right and got a plan
C19_Witness ==
  /\ last.op = "submit" /\ last.code = 200
  /\ Cardinality(completed_mocks(arena_attempts, arena_attempts[last.session_id])) = 3
  /\ arena_attempts[last.session_id].attempt_type = "mock"
  /\ arena_attempts[last.session_id].accuracy_percent >= 40 * Unit
  /\ \E k \in DOMAIN revision_plans : revision_plans[k].attempt_id = last.session_id

(***************************************************************************)
(* arena_revision_plans under two submit requests for one attempt,         *)
(* checked under SpecRace                                                  *)
(***************************************************************************)
\* C20: in every reachable state arena_revision_plans holds at most one row
\* per (student, attempt): a second submit for the same attempt adds no
\* second plan.
C20_OnePlanPerAttempt ==
  \A k, l \in DOMAIN revision_plans :
    /\ revision_plans[k].student_id = revision_plans[l].student_id
    /\ revision_plans[k].attempt_id = revision_plans[l].attempt_id
    => k = l

(***************************************************************************)
(* The practice questions of a revision plan.  _generate_fallback_questions *)
(* (lines 115-146) gives every topic of a subject several questions of each *)
(* difficulty; WideBank has two topics of JEE Physics with four questions   *)
(* each, and the mock test of a student without history draws its two       *)
(* Medium questions.                                                        *)
(***************************************************************************)
WideBank ==
  [q \in 1..8 |->
     [exam |-> "JEE", subject |-> "Physics",
      topic_tag |-> IF q \in {1, 3, 4, 5} THEN "Mechanics" ELSE "Optics",
      difficulty |-> IF q \in {1, 2} THEN "Medium" ELSE "Hard"]]

WideOrder == [i \in 1..8 |-> i]

\* student 1 has started a mock test on WideBank: attempt 1 holds questions 1 and 2
PracticeDB ==
  start_mock_test([EmptyDB EXCEPT !.question_bank = WideBank], 1,
                  WideOrder, WideOrder, WideOrder).db

\* the orders RANDOM() can give the questions outside the attempt in the query of
\* lines 442-448
PracticeOrders == {<<1, 2>> \o p : p \in Permutations_of(3..8)}

InitPractice ==
  /\ Holds(PracticeDB)
  /\ enrollments = <<>>
  /\ quiz_submissions = EmptyBag
  /\ leaderboard_scores = EmptyFn
  /\ inflight = [slot \in {1, 2} |-> Idle]
  /\ last = NoRequest
  /\ raised = 0
  /\ arg \in PracticeOrders
  /\ ret = "none"

\* the student submits attempt 1 with k answers, the first `right' of them right
SubmitPractice(k, right) ==
  /\ arena_attempts[1].status = "ongoing"
  /\ SubmitAttempt(1, 1, Payload(1, k, right), 20, "none", arg)

NextPractice == \E k \in 1..QuizSize, right \in 0..QuizSize : SubmitPractice(k, right)

SpecPractice == InitPractice /\ [][NextPractice]_vars

\* the answer rows of an attempt that are wrong
wrong_rows(answers, attempt_id) ==
  {i \in DOMAIN answers : answers[i].attempt_id = attempt_id /\ ~answers[i].is_correct}

\* the question ids an attempt was given (questions_json)
selected_questions(a) == {a.questions[i] : i \in DOMAIN a.questions}

\* C21: the practice questions of every revision plan hold, for each topic in
\* which the attempt has a wrong answer, 3 questions or all the bank has for
\* the plan's exam and subject outside the attempt; every practice question
\* has the plan's exam and subject and one of those topics; and none is a
\* question the attempt had selected.
C21_PracticePerWeakTopicUnseen ==
  \A k \in DOMAIN revision_plans :
    LET p == revision_plans[k]
        a == arena_attempts[p.attempt_id]
        practice == p.practice_questions
        weak == {question_bank[attempt_answers[i].question_id].topic_tag :
                   i \in wrong_rows(attempt_answers, p.attempt_id)}
        unseen(t) == {q \in DOMAIN question_bank :
                        /\ question_bank[q].exam = p.exam
                        /\ question_bank[q].subject = p.subject
                        /\ question_bank[q].topic_tag = t
                        /\ q \notin selected_questions(a)}
    IN /\ \A t \in weak :
            Cardinality({i \in DOMAIN practice : question_bank[practice[i]].topic_tag = t})
              = Min(3, Cardinality(unseen(t)))
       /\ \A i \in DOMAIN practice :
            /\ question_bank[practice[i]].exam = p.exam
            /\ question_bank[practice[i]].subject = p.subject
            /\ question_bank[practice[i]].topic_tag \in weak
            /\ practice[i] \notin selected_questions(a)

(***************************************************************************)
(* readiness_before of a revision plan, checked under SpecPlan             *)
(***************************************************************************)
\* C22: a revision plan written by the completion of an attempt carries as
\* readiness_before the readiness of the student for the exam and subject
\* over the attempts completed before that completion, the completing
\* attempt excluded.
C22_ReadinessBeforeExcludesAttempt ==
  [][\A k \in DOMAIN revision_plans' \ DOMAIN revision_plans :
       LET p == revision_plans'[k]
       IN p.readiness_before =
            _compute_readiness(completed_attempts(DB, p.student_id, p.exam, p.subject, 10))]_vars

(***************************************************************************)
(* The limit of three mock tests for an exam and subject.  The bank is     *)
(* seeded for two subjects of JEE (EXAM_SUBJECT_MAP, lines 14-19), and the *)
(* student changes the profile between them.                               *)
(***************************************************************************)
MaxCapAttempts == 4      \* three mock tests of a subject and one attempt more

CapBank ==
  SeededBank
  @@ (4 :> [exam |-> "JEE", subject |-> "Chemistry", topic_tag |-> "Equilibrium",
            difficulty |-> "Medium"])
  @@ (5 :> [exam |-> "JEE", subject |-> "Chemistry", topic_tag |-> "Chemical Bonding",
            difficulty |-> "Medium"])

CapOrder == [i \in 1..5 |-> i]

CapProfiles == {<<CapBank[q].exam, CapBank[q].subject>> : q \in DOMAIN CapBank}

InitCap ==
  /\ Holds([EmptyDB EXCEPT !.question_bank = CapBank])
  /\ enrollments = <<>>
  /\ quiz_submissions = EmptyBag
  /\ leaderboard_scores = EmptyFn
  /\ inflight = [slot \in {1, 2} |-> Idle]
  /\ last = NoRequest
  /\ raised = 0
  /\ arg = <<>>
  /\ ret = "none"

\* a start-mock request; a refused one writes no row and is taken at any table size
StartMockCap(uid) ==
  LET r == start_mock_test(DB, uid, CapOrder, CapOrder, CapOrder)
  IN /\ Len(arena_attempts) < MaxCapAttempts \/ r.code = 400
     /\ Commit(r.db)
     /\ last' = [op |-> "start_mock", uid |-> uid, code |-> r.code]
     /\ UNCHANGED <<classvars, inflight, raised, arg, ret>>

StartDailyCap(uid) ==
  LET r == start_daily_challenge(DB, uid, CapOrder, CapOrder, CapOrder)
  IN /\ Len(arena_attempts) < MaxCapAttempts \/ r.code = 400
     /\ Commit(r.db)
     /\ last' = [op |-> "start_daily", uid |-> uid, code |-> r.code]
     /\ UNCHANGED <<classvars, inflight, raised, arg, ret>>

\* submit an ongoing attempt with an answer to every question, the first `right' right
SubmitCap(uid, session_id, right) ==
  LET w == submit_attempt([db |-> DB,
                           c |-> Request(uid, session_id,
                                         Payload(session_id, Len(questions_of(session_id)), right),
                                         20, "none", CapOrder)])
  IN /\ session_id \in DOMAIN arena_attempts
     /\ arena_attempts[session_id].status = "ongoing"
     /\ Commit(w.db)
     /\ last' = SubmitLog(w.c)
     /\ UNCHANGED <<classvars, inflight, raised, arg, ret>>

NextCap ==
  \/ \E uid \in Learners : StartMockCap(uid)
  \/ \E uid \in Learners : StartDailyCap(uid)
  \/ \E uid \in Learners, session_id \in 1..MaxCapAttempts : SubmitCap(uid, session_id, 0)
  \/ \E uid \in Learners, p \in CapProfiles : SetExamProfile(uid, p[1], p[2])

SpecCap == InitCap /\ [][NextCap]_vars

\* the mock attempts of a student for an exam and subject, whatever their status
mocks_of(attempts, uid, exam, subject) ==
  {i \in DOMAIN attempts :
     /\ attempts[i].student_id = uid /\ attempts[i].attempt_type = "mock"
     /\ attempts[i].exam = exam /\ attempts[i].subject = subject}

\* C23: after every operation no student has more than 3 mock attempts for one
\* exam and subject, and a start-mock request made when the student has 3 for
\* the exam and subject of the profile adds no attempt and is answered with
\* an error.
C23_AtMostThreeMocks ==
  [][/\ \A uid \in Students, p \in CapProfiles :
         Cardinality(mocks_of(arena_attempts', uid, p[1], p[2])) <= 3
    /\ \A sid \in Students :
         /\ last'.op = "start_mock" /\ last'.uid = sid
         /\ Cardinality(mocks_of(arena_attempts, sid, profile_of(DB, sid).exam,
                                  profile_of(DB, sid).subject)) >= 3
         => arena_attempts' = arena_attempts /\ last'.code = 400]_vars

\* the student holds three mock tests of one subject and one of the other, and
\* the request for a fourth of the first subject was refused
C23_Witness ==
  /\ last.op = "start_mock" /\ last.code = 400
  /\ Cardinality(mocks_of(arena_attempts, last.uid, profile_of(DB, last.uid).exam,
                           profile_of(DB, last.uid).subject)) = 3
  /\ \E p \in CapProfiles :
       /\ p # <<profile_of(DB, last.uid).exam, profile_of(DB, last.uid).subject>>
       /\ mocks_of(arena_attempts, last.uid, p[1], p[2]) # {}

(***************************************************************************)
(* LeaderboardEngine._mask_email (leaderboard_engine.py 173-183).  A       *)
(* string is a sequence of characters.                                     *)
(***************************************************************************)
MaxEmailLen == 5       \* characters of an enumerated email

\* the part of an email before its first '@' and the part after it: split('@', 1)
split_at(email) ==
  LET at == CHOOSE i \in 1..Len(email) :
              email[i] = "@" /\ \A j \in 1..(i - 1) : email[j] # "@"
  IN [local |-> SubSeq(email, 1, at - 1), domain |-> SubSeq(email, at + 1, Len(email))]

\* a mask that shows the first two characters of the local part
mask_first_two(email) ==
  IF email = <<>> \/ \A i \in 1..Len(email) : email[i] # "@"
  THEN <<"*", "*", "*", "@", "*", "*", "*">>
  ELSE LET parts == split_at(email)
           masked == IF Len(parts.local) <= 2 THEN <<"*">>
                     ELSE SubSeq(parts.local, 1, 2) \o <<"*", "*", "*">>
       IN masked \o <<"@">> \o parts.domain

_mask_email(email) ==
  IF email = <<>> \/ \A i \in 1..Len(email) : email[i] # "@"
  THEN <<"*", "*", "*", "@", "*", "*", "*">>
  ELSE LET parts == split_at(email)
           masked == IF Len(parts.local) <= 1 THEN <<"*">>
                     ELSE <<parts.local[1]>> \o <<"*", "*", "*">>
       IN masked \o <<"@">> \o parts.domain

EmailChars == {"a", "b", "@", "."}

JohnAtGmail == <<"j", "o", "h", "n", "@", "g", "m", "a", "i", "l", ".", "c", "o", "m">>

AAtX == <<"a", "@", "x", ".", "c", "o", "m">>

\* every string of up to MaxEmailLen characters of EmailChars, and the two examples
Emails ==
  UNION {[1..n -> EmailChars] : n \in 0..MaxEmailLen} \cup {JohnAtGmail, AAtX}

NoMask == [done |-> FALSE]

InitMask == InitDB /\ arg \in Emails /\ ret = NoMask

ApplyMask ==
  /\ ret = NoMask
  /\ ret' = [done |-> TRUE, masked |-> _mask_email(arg)]
  /\ UNCHANGED <<classvars, sysvars, arg>>

SpecMask == InitMask /\ [][ApplyMask]_vars

\* the emails of the claim: one '@' and a local part that is not empty
OneAt(email) ==
  /\ Cardinality({i \in 1..Len(email) : email[i] = "@"}) = 1
  /\ email[1] # "@"

\* C24: for an email with one '@' and a non-empty local part the mask is '*'
\* for a local part of one character and the first character followed by
\* '***' otherwise, then '@' and the domain unchanged; two such emails whose
\* local parts of two or more characters start alike and whose domains are the
\* same have the same mask; "john@gmail.com" gives "j***@gmail.com" and
\* "a@x.com" gives "*@x.com".
C24_MaskHidesLocalPart ==
  ret # NoMask /\ OneAt(arg) =>
    LET parts == split_at(arg)
    IN /\ ret.masked = (IF Len(parts.local) = 1 THEN <<"*">>
                        ELSE <<parts.local[1], "*", "*", "*">>)
                       \o <<"@">> \o parts.domain
       /\ \A other \in Emails :
            /\ OneAt(other)
            /\ split_at(other).domain = parts.domain
            /\ Len(split_at(other).local) >= 2 /\ Len(parts.local) >= 2
            /\ split_at(other).local[1] = parts.local[1]
            => _mask_email(other) = ret.masked
       /\ arg = JohnAtGmail => ret.masked = <<"j", "*", "*", "*", "@", "g", "m", "a", "i", "l", ".", "c", "o", "m">>
       /\ arg = AAtX => ret.masked = <<"*", "@", "x", ".", "c", "o", "m">>

\* the mask of an email whose local part has characters after the first
C24_Witness ==
  /\ ret # NoMask
  /\ OneAt(arg)
  /\ Len(split_at(arg).local) = 3
  /\ split_at(arg).local[2] # split_at(arg).local[1]
  /\ Len(ret.masked) = 4 + 1 + Len(split_at(arg).domain)

(***************************************************************************)
(* _update_topic_mastery applied once to a table and the answers of an     *)
(* attempt.  topic_tag defaults to '' (ensure_schema.py 261): question 3   *)
(* of FrameBank has no topic tag.                                          *)
(***************************************************************************)
MaxFrameAnswers == 2     \* answers of the attempt

FrameBank ==
  (1 :> [exam |-> "JEE", subject |-> "Physics", topic_tag |-> "Mechanics", difficulty |-> "Medium"])
  @@ (2 :> [exam |-> "JEE", subject |-> "Physics", topic_tag |-> "Optics", difficulty |-> "Medium"])
  @@ (3 :> [exam |-> "JEE", subject |-> "Physics", topic_tag |-> "", difficulty |-> "Medium"])

FrameSubjects == {<<"JEE", "Physics">>, <<"NEET", "Physics">>}

\* every student has a row for every topic of every subject, or the table is empty
FrameTables ==
  {EmptyFn,
   [key \in {<<uid, p[1], p[2], t>> : uid \in Students, p \in FrameSubjects,
                                       t \in {"Mechanics", "Optics"}}
      |-> [mastery_score |-> 500, weak_flag |-> 0]]}

\* the calls of line 1107: [uid, exam, subject, wrong, correct]
FrameCalls ==
  {[uid |-> uid, exam |-> p[1], subject |-> p[2],
    wrong |-> SelectSeq([i \in DOMAIN a |-> IF a[i][2] THEN 0 ELSE a[i][1]],
                        LAMBDA q : q # 0),
    correct |-> SelectSeq([i \in DOMAIN a |-> IF a[i][2] THEN a[i][1] ELSE 0],
                          LAMBDA q : q # 0)] :
     uid \in Students, p \in FrameSubjects,
     a \in UNION {[1..k -> (DOMAIN FrameBank) \X BOOLEAN] : k \in 1..MaxFrameAnswers}}

NoFrame == [done |-> FALSE]

InitFrame ==
  /\ \E table \in FrameTables :
       Holds([EmptyDB EXCEPT !.question_bank = FrameBank, !.topic_mastery = table])
  /\ enrollments = <<>>
  /\ quiz_submissions = EmptyBag
  /\ leaderboard_scores = EmptyFn
  /\ inflight = [slot \in {1, 2} |-> Idle]
  /\ last = NoRequest
  /\ raised = 0
  /\ arg \in FrameCalls
  /\ ret = NoFrame

ApplyMastery ==
  /\ ret = NoFrame
  /\ Commit(_update_topic_mastery(DB, arg.uid, arg.exam, arg.subject, arg.wrong, arg.correct))
  /\ ret' = [done |-> TRUE]
  /\ UNCHANGED <<classvars, inflight, last, raised, arg>>

SpecFrame == InitFrame /\ [][ApplyMastery]_vars

\* the topic tags of the questions of a call, the empty tag left out
tagged_topics(call) ==
  {question_bank[q].topic_tag :
     q \in {call.wrong[i] : i \in DOMAIN call.wrong}
            \cup {call.correct[i] : i \in DOMAIN call.correct}} \ {""}

\* C25: updateMastery for student s, exam e and subject j creates or changes
\* only rows keyed (s, e, j, t) with t a non-empty topic tag of a question
\* answered in the attempt, it writes every such row, it removes no row, and
\* it writes no other table.
C25_MasteryFrame ==
  [][/\ DOMAIN topic_mastery \subseteq DOMAIN topic_mastery'
     /\ \A key \in DOMAIN topic_mastery' :
          key \notin DOMAIN topic_mastery \/ topic_mastery'[key] # topic_mastery[key]
          => /\ key[1] = arg.uid /\ key[2] = arg.exam /\ key[3] = arg.subject
             /\ key[4] \in tagged_topics(arg)
     /\ \A t \in tagged_topics(arg) :
          <<arg.uid, arg.exam, arg.subject, t>> \in DOMAIN topic_mastery'
     /\ \A key \in DOMAIN topic_mastery' : key[4] # ""
     /\ UNCHANGED <<question_bank, arena_profiles, arena_attempts, attempt_answers,
                    xp_log, rank_status, ai_notes, revision_plans, achievements>>]_vars

\* an attempt with a wrong answer on Mechanics and an answer to the question
\* without a topic tag has changed the student's Mechanics row of the subject
\* and left the seven other rows as they were
C25_Witness ==
  /\ ret = [done |-> TRUE]
  /\ arg.wrong = <<1>> /\ arg.correct = <<3>>
  /\ Cardinality(DOMAIN topic_mastery) = 8
  /\ topic_mastery[<<arg.uid, arg.exam, arg.subject, "Mechanics">>].mastery_score = 150
  /\ Cardinality({key \in DOMAIN topic_mastery : topic_mastery[key].mastery_score = 500}) = 7

(***************************************************************************)
(* _get_level and _get_next_level_xp (arena.py 491-500) applied to an      *)
(* xp_total                                                                *)
(***************************************************************************)
MaxXp == 40000         \* the largest xp_total drawn

\* the hundreds up to MaxXp with their neighbours: every threshold of the ladder
\* and of the steps of 5000 beyond it is among them
XpValues == {xp \in 0..MaxXp : xp % 100 \in {0, 1, 99}}

NoLevel == [done |-> FALSE]

InitLevel == InitDB /\ arg \in XpValues /\ ret = NoLevel

ApplyLevel ==
  /\ ret = NoLevel
  /\ ret' = [done |-> TRUE, level |-> _get_level(arg),
             next_level_xp |-> _get_next_level_xp(_get_level(arg))]
  /\ UNCHANGED <<classvars, sysvars, arg>>

SpecLevel == InitLevel /\ [][ApplyLevel]_vars

\* C26: level(xp) is the number of thresholds of the ladder that are <= xp,
\* plus floor((xp - 20000) / 5000) from 20000 on; xp is below
\* next_level_xp(level(xp)), and the level of that value is level(xp) + 1.
C26_LevelCountsThresholds ==
  ret # NoLevel =>
    /\ ret.level = Cardinality({i \in DOMAIN LEVEL_THRESHOLDS : LEVEL_THRESHOLDS[i] <= arg})
                   + (IF arg >= 20000 THEN (arg - 20000) \div 5000 ELSE 0)
    /\ arg < ret.next_level_xp
    /\ _get_level(ret.next_level_xp) = ret.level + 1

\* an xp_total on a threshold of the ladder, and one beyond the ladder
C26_Witness ==
  /\ ret # NoLevel
  /\ \/ arg = 500 /\ ret.level = 3 /\ ret.next_level_xp = 1000
     \/ arg = 25000 /\ ret.level = 12 /\ ret.next_level_xp = 30000

(***************************************************************************)
(* The accuracy of an attempt as the readiness reads it, checked under Spec *)
(***************************************************************************)
\* C27: for every completed attempt the accuracy that computeReadiness takes
\* for it (score over total_questions) is the accuracy_percent stored with it
\* (score over the number of answers submitted), also when the number of
\* answers differs from total_questions.
C27_ReadinessAccuracyIsStoredAccuracy ==
  \A i \in DOMAIN arena_attempts :
    arena_attempts[i].status = "completed" =>
      attempt_acc(arena_attempts[i]) = arena_attempts[i].accuracy_percent

(***************************************************************************)
(* The class leaderboard after a student has left, checked under SpecBoard *)
(***************************************************************************)
\* C28: after recalculate_class has completed, whatever joins, leaves, quiz
\* submissions and recalculations came before, every board
\* get_class_leaderboard can return lists only students enrolled in the
\* class, and no student who is not enrolled holds a leaderboard_scores row
\* with its rank_position.
C28_BoardListsEnrolledOnly ==
  Recalculated =>
    /\ \A board \in get_class_leaderboard(leaderboard_scores, 10) :
         \A i \in DOMAIN board : is_enrolled(board[i].student_id)
    /\ \A sid \in DOMAIN leaderboard_scores : is_enrolled(sid)

(***************************************************************************)
(* rank_name after the achievement check.  STREAK_MASTER is unlocked by    *)
(* the seventh completion of a student (streak_days >= 7, line 537): the   *)
(* student has opened the dashboard and completed three mock tests of JEE  *)
(* Physics and three of JEE Chemistry, and takes the daily challenge.      *)
(***************************************************************************)
\* an answer to every question of the list, the first `right' of them right
answers_to(questions, right) ==
  [i \in DOMAIN questions |-> [question_id |-> questions[i], correct |-> i <= right]]

\* student uid starts a mock test and submits it, once for every entry of rights
RECURSIVE mocks_completed(_, _, _)
mocks_completed(d, uid, rights) ==
  IF rights = <<>> THEN d
  ELSE LET started == start_mock_test(d, uid, CapOrder, CapOrder, CapOrder).db
           session_id == Len(started.arena_attempts)
           w == submit_attempt(
                  [db |-> started,
                   c |-> Request(uid, session_id,
                                 answers_to(started.arena_attempts[session_id].questions,
                                            Head(rights)),
                                 20, "none", CapOrder)])
       IN mocks_completed(w.db, uid, Tail(rights))

\* the tables after the dashboard, three mock tests of Physics, the change of
\* the profile to Chemistry and three mock tests of Chemistry
StreakDB(rights) ==
  LET opened == arena_dashboard([EmptyDB EXCEPT !.question_bank = CapBank], 1)
      physics == mocks_completed(opened, 1, SubSeq(rights, 1, 3))
      changed == set_exam_profile(physics, 1, "JEE", "Chemistry")
  IN mocks_completed(changed, 1, SubSeq(rights, 4, 6))

InitStreak ==
  /\ arg \in [1..6 -> 0..QuizSize]
  /\ Holds(StreakDB(arg))
  /\ enrollments = <<>>
  /\ quiz_submissions = EmptyBag
  /\ leaderboard_scores = EmptyFn
  /\ inflight = [slot \in {1, 2} |-> Idle]
  /\ last = NoRequest
  /\ raised = 0
  /\ ret = "none"

StartDailyStreak(uid) ==
  LET r == start_daily_challenge(DB, uid, CapOrder, CapOrder, CapOrder)
  IN /\ Commit(r.db)
     /\ last' = [op |-> "start_daily", uid |-> uid, code |-> r.code]
     /\ UNCHANGED <<classvars, inflight, raised, arg, ret>>

NextStreak ==
  \/ \E uid \in Learners : StartDailyStreak(uid)
  \/ \E uid \in Learners, session_id \in 1..7, right \in 0..QuizSize :
       SubmitCap(uid, session_id, right)

SpecStreak == InitStreak /\ [][NextStreak]_vars

\* C29: after every submit request that has completed an attempt, the
\* achievement check included, the rank_name stored for the student is
\* computeRank of the stored xp_total, the accuracy of the attempt just
\* submitted and the stored streak_days.
C29_RankNameMatchesStoredXp ==
  /\ last.op = "submit" /\ last.code = 200
  /\ \E i \in DOMAIN last.stage_log : last.stage_log[i] = "achievements"
  /\ last.uid \in DOMAIN rank_status
  => rank_status[last.uid].rank_name
       = _calculate_rank(rank_status[last.uid].xp_total,
                         arena_attempts[last.session_id].accuracy_percent,
                         rank_status[last.uid].streak_days)

(***************************************************************************)
(* The questions an attempt is given, checked under Spec                   *)
(***************************************************************************)
\* C30: every attempt holds at most QuizSize selected question ids (10 in
\* the source), pairwise distinct, each a question of the attempt's exam and
\* subject, and its total_questions is the number of selected ids.
C30_SelectedQuestionsDistinct ==
  \A s \in DOMAIN arena_attempts :
    LET a == arena_attempts[s]
    IN /\ Len(a.questions) <= QuizSize
       /\ \A i, j \in DOMAIN a.questions : a.questions[i] = a.questions[j] => i = j
       /\ \A i \in DOMAIN a.questions :
            /\ a.questions[i] \in DOMAIN question_bank
            /\ question_bank[a.questions[i]].exam = a.exam
            /\ question_bank[a.questions[i]].subject = a.subject
       /\ a.total_questions = Len(a.questions)

====
